---- MODULE Spec2Model ----
(***************************************************************************)
(* A model of fync: two peers that keep two directory trees in sync.       *)
(*                                                                         *)
(*   - the snapshot algebra of src/src/lib.rs (FsState::diff, apply_diff,  *)
(*     apply_diff_to_disk, FileChange::conflicts, refresh_path),           *)
(*   - the ContentStore with its journal of new contents,                  *)
(*   - Node (this_state, other_state, conflicts) and its message handlers, *)
(*   - the event loop run_node of src/src/main.rs: the init handshake and  *)
(*     the steady-state loop over the input channel and the watcher.       *)
(*                                                                         *)
(* Specifications:                                                         *)
(*   AlgebraSpec  the pure functions applied to inputs drawn in Init       *)
(*   MemSpec      two in-memory Nodes driven as in the unit tests          *)
(*   Spec         two Running peers, starting from a common snapshot       *)
(*   InitSpec     two peers from start-up through the init handshake       *)
(*   FairInitSpec InitSpec with the init-loop steps scheduled fairly       *)
(*   TestNodeSpec two Nodes syncing in one direction, as in test_node      *)
(*   StoreSpec    one ContentStore under add, insert and drain             *)
(*   DebounceSpec the watcher channel and calls of debounce_watcher        *)
(*   IoSpec       run_node_with_io: read thread, loop, write thread, joins *)
(*   HandleSpec   handle_message_disk on one message, any arguments        *)
(*   RefreshSpec  Node::refresh_paths on one batch, any arguments          *)
(*   ApplySpec    apply_diff and apply_diff_to_disk on one diff            *)
(*   StoreOpsSpec one ContentStore under every operation, remove included  *)
(*   FaultSpec    start-up with any override flags and stray messages      *)
(*   SyncSpec     the two loops of sync_command on bounded channels        *)
(*   DirSpec      two Running peers whose users also make directories      *)
(*   RetrySpec    ssh_sync_command_with_retry over failing connections     *)
(***************************************************************************)
EXTENDS Integers, Sequences, FiniteSets, TLC

\* Bounds of the model.
NumPaths == 2
NumContents == 3
NumDiskContents == 2
MaxEdits == 3
MaxInitEdits == 1
MaxStoreCalls == 5
NumWatchPaths == 4
MaxWatchEvents == 4
QuietTicks == 2
WindowTicks == 3
MaxIncoming == 3
MaxRefreshes == 2
MaxStray == 2
MaxStoreOps == 4
ChannelCap == 2
MaxSyncRefreshes == 3
MaxDirEdits == 2
MaxConnections == 12

VARIABLES
    pc,             \* per peer: where run_node is
    node_init,      \* per peer: the NodeInit of the handshake
    this_state,     \* per peer: Node.this_state (own snapshot)
    other_state,    \* per peer: Node.other_state (peer view)
    conflicts,      \* per peer: Node.conflicts (conflict log)
    disk,           \* per peer: the regular files under the root
    content_store,  \* per peer: the ContentStore
    watch_rx,       \* per peer: paths the watcher has reported, not yet refreshed
    input,          \* per peer: the messages in flight towards the peer
    base,           \* the snapshot both peers started from
    edited,         \* per peer: the paths its user has written or deleted
    edits,          \* user edits still allowed
    hs_log,         \* per peer: the messages it sent and received up to Running
    mstage,         \* per peer: position in the in-memory exchange
    mstart,         \* per peer: this_state as the exchange began
    mdiff,          \* per peer: the diff changes_for_other returned
    maccepted,      \* per peer: the diff apply_changes_from_other_mem returned
    alg             \* input and output of a pure function

nodeVars == <<this_state, other_state, conflicts>>
envVars == <<pc, node_init, disk, content_store, watch_rx, input>>
scenVars == <<base, edited, edits, hs_log>>
memVars == <<mstage, mstart, mdiff, maccepted>>
vars == <<pc, node_init, this_state, other_state, conflicts, disk, content_store,
          watch_rx, input, base, edited, edits, hs_log, mstage, mstart, mdiff, maccepted, alg>>

Peers == {1, 2}
Other(p) == 3 - p

\* FilePath: relative paths, ordered as the BTreeMap orders them.
Paths == 1 .. NumPaths
\* The byte contents a file can have.
Bytes == 1 .. NumContents
\* The contents the files on disk take in Spec and InitSpec.
DiskBytes == 1 .. NumDiskContents

\* iroh_blake3::hash: injective on the contents of the model.
Hash(content) == <<"blake3", content>>
ContentHashes == {Hash(b) : b \in Bytes}

FileMetadata(h) == [content_hash |-> h]
FileMetadatas == {FileMetadata(h) : h \in ContentHashes}

\* Option<T>: None is <<>>, Some(x) is <<x>>.
None == <<>>
Some(x) == <<x>>
Options(S) == {None} \cup {Some(x) : x \in S}

\* BTreeMap / HashMap as functions with a finite domain.
EmptyMap == <<>>
MapGet(m, k) == IF k \in DOMAIN m THEN Some(m[k]) ELSE None
MapInsert(m, k, v) == [x \in (DOMAIN m) \cup {k} |-> IF x = k THEN v ELSE m[x]]
MapRemove(m, k) == [x \in (DOMAIN m) \ {k} |-> m[x]]
Maps(K, V) == UNION {[D -> V] : D \in SUBSET K}

RECURSIVE SortedKeys(_)
SortedKeys(S) ==
    IF S = {} THEN <<>>
    ELSE LET m == CHOOSE x \in S : \A y \in S : x <= y
         IN <<m>> \o SortedKeys(S \ {m})

RECURSIVE SeqToSet(_)
SeqToSet(s) == IF s = <<>> THEN {} ELSE {Head(s)} \cup SeqToSet(Tail(s))

\* FsState: path -> FileMetadata.
FsStates == Maps(Paths, FileMetadatas)

\* FileChange.
Removed(old) == [kind |-> "Removed", old_meta |-> old]
Created(meta) == [kind |-> "Created", meta |-> meta]
Modified(old, new) == [kind |-> "Modified", old_meta |-> old, new_meta |-> new]
FileChanges ==
    {Removed(m) : m \in FileMetadatas} \cup {Created(m) : m \in FileMetadatas}
    \cup {Modified(o, n) : o \in FileMetadatas, n \in FileMetadatas}
\* The metadata a Created or Modified change installs.
InstalledMeta(change) == IF change.kind = "Created" THEN change.meta ELSE change.new_meta

FsStateDiffs == Maps(Paths, FileChanges)

\* ---------------------------------------------------------------- FsState

\* A diff that forgets the files only `next` has.
FsState_diff_NoCreated(self, next) ==
    [f \in {g \in DOMAIN self : g \notin DOMAIN next
                \/ self[g].content_hash # next[g].content_hash} |->
        IF f \in DOMAIN next THEN Modified(self[f], next[f]) ELSE Removed(self[f])]

\* A diff that reports every file both snapshots have as Modified.
FsState_diff_NoCompare(self, next) ==
    [f \in (DOMAIN self) \cup (DOMAIN next) |->
        IF f \in DOMAIN self
        THEN IF f \in DOMAIN next THEN Modified(self[f], next[f]) ELSE Removed(self[f])
        ELSE Created(next[f])]

\* A diff that reports a file only `self` has as Modified into itself.
FsState_diff_RemovedAsModified(self, next) ==
    [f \in {g \in DOMAIN self : g \notin DOMAIN next
                \/ self[g].content_hash # next[g].content_hash}
            \cup {g \in DOMAIN next : g \notin DOMAIN self} |->
        IF f \in DOMAIN self
        THEN Modified(self[f], IF f \in DOMAIN next THEN next[f] ELSE self[f])
        ELSE Created(next[f])]

FsState_diff(self, next) ==
    LET changed == {f \in DOMAIN self : f \notin DOMAIN next
                        \/ self[f].content_hash # next[f].content_hash}
        created == {f \in DOMAIN next : f \notin DOMAIN self}
    IN [f \in changed \cup created |->
            IF f \in DOMAIN self
            THEN IF f \in DOMAIN next
                 THEN Modified(self[f], next[f])
                 ELSE Removed(self[f])
            ELSE Created(next[f])]

\* A conflict predicate that lets a Modified through when the file is gone.
FileChange_conflicts_ModifiedMissingOk(change, current_metadata) ==
    /\ current_metadata # None
    /\ LET current_meta == current_metadata[1]
       IN CASE change.kind = "Removed" ->
                   current_meta.content_hash # change.old_meta.content_hash
            [] change.kind = "Created" ->
                   current_meta.content_hash # change.meta.content_hash
            [] change.kind = "Modified" ->
                   /\ current_meta.content_hash # change.old_meta.content_hash
                   /\ current_meta.content_hash # change.new_meta.content_hash

FileChange_conflicts(change, current_metadata) ==
    CASE current_metadata # None /\ change.kind = "Removed" ->
             current_metadata[1].content_hash # change.old_meta.content_hash
      [] current_metadata = None /\ change.kind = "Removed" -> FALSE
      [] current_metadata = None /\ change.kind = "Created" -> FALSE
      [] current_metadata # None /\ change.kind = "Created" ->
             current_metadata[1].content_hash # change.meta.content_hash
      [] current_metadata # None /\ change.kind = "Modified" ->
             /\ current_metadata[1].content_hash # change.old_meta.content_hash
             /\ current_metadata[1].content_hash # change.new_meta.content_hash
      [] current_metadata = None /\ change.kind = "Modified" -> TRUE

\* An entry that drops the file from the snapshot when the change conflicts.
apply_diff_entry_ConflictDrops(files, confl, file_path, change) ==
    IF FileChange_conflicts(change, MapGet(files, file_path))
    THEN [files |-> MapRemove(files, file_path), conflicts |-> Append(confl, file_path)]
    ELSE [files |-> IF change.kind = "Removed"
                    THEN MapRemove(files, file_path)
                    ELSE MapInsert(files, file_path, InstalledMeta(change)),
          conflicts |-> confl]

\* One entry of apply_diff's loop: the snapshot and the conflict list after it.
apply_diff_entry(files, confl, file_path, change) ==
    IF FileChange_conflicts(change, MapGet(files, file_path))
    THEN [files |-> files, conflicts |-> Append(confl, file_path)]
    ELSE [files |-> IF change.kind = "Removed"
                    THEN MapRemove(files, file_path)
                    ELSE MapInsert(files, file_path, InstalledMeta(change)),
          conflicts |-> confl]

RECURSIVE apply_diff_loop(_, _, _, _)
apply_diff_loop(files, confl, diff, keys) ==
    IF keys = <<>> THEN [files |-> files, conflicts |-> confl]
    ELSE LET r == apply_diff_entry(files, confl, Head(keys), diff[Head(keys)])
         IN apply_diff_loop(r.files, r.conflicts, diff, Tail(keys))

\* FsState::apply_diff: [files |-> the snapshot after, conflicts |-> the returned list].
FsState_apply_diff(self, diff) ==
    apply_diff_loop(self, <<>>, diff, SortedKeys(DOMAIN diff))

\* ------------------------------------------------------------ AlgebraSpec

IdleNode ==
    /\ this_state = [p \in Peers |-> EmptyMap]
    /\ other_state = [p \in Peers |-> EmptyMap]
    /\ conflicts = [p \in Peers |-> <<>>]
IdleEnv ==
    /\ pc = [p \in Peers |-> "off"]
    /\ node_init = [p \in Peers |-> <<>>]
    /\ disk = [p \in Peers |-> EmptyMap]
    /\ content_store = [p \in Peers |-> <<>>]
    /\ watch_rx = [p \in Peers |-> {}]
    /\ input = [p \in Peers |-> <<>>]
IdleScen ==
    /\ base = EmptyMap
    /\ edited = [p \in Peers |-> {}]
    /\ edits = 0
    /\ hs_log = [p \in Peers |-> <<>>]
IdleMem ==
    /\ mstage = [p \in Peers |-> "off"]
    /\ mstart = [p \in Peers |-> EmptyMap]
    /\ mdiff = [p \in Peers |-> EmptyMap]
    /\ maccepted = [p \in Peers |-> EmptyMap]
IdleAlg == alg = [pc |-> "off"]

AlgInit ==
    /\ alg \in {[pc |-> "diff_in", s |-> s, t |-> t] : s \in FsStates, t \in FsStates}
          \cup {[pc |-> "conflicts_in", change |-> c, current |-> m] :
                    c \in FileChanges, m \in Options(FileMetadatas)}
          \cup {[pc |-> "sym_in", s |-> s, t |-> t] : s \in FsStates, t \in FsStates}
          \cup {[pc |-> "twice_in", s |-> s, diff |-> d] :
                    s \in FsStates, d \in FsStateDiffs}
    /\ IdleNode /\ IdleEnv /\ IdleScen /\ IdleMem

\* let d = s.diff(&t); let conflicts = s.apply_diff(&d);
AlgDiffApply ==
    /\ alg.pc = "diff_in"
    /\ LET d == FsState_diff(alg.s, alg.t)
           r == FsState_apply_diff(alg.s, d)
       IN alg' = [pc |-> "diff_out", s |-> alg.s, t |-> alg.t, diff |-> d,
                  applied |-> r.files, conflicts |-> r.conflicts]
    /\ UNCHANGED <<nodeVars, envVars, scenVars, memVars>>

\* change.conflicts(current)
AlgConflicts ==
    /\ alg.pc = "conflicts_in"
    /\ alg' = [pc |-> "conflicts_out", change |-> alg.change, current |-> alg.current,
               result |-> FileChange_conflicts(alg.change, alg.current)]
    /\ UNCHANGED <<nodeVars, envVars, scenVars, memVars>>

\* FsStateDiff::is_empty
FsStateDiff_is_empty(diff) == DOMAIN diff = {}

\* s.diff(&t) and t.diff(&s), side by side.
AlgDiffBothWays ==
    /\ alg.pc = "sym_in"
    /\ alg' = [pc |-> "sym_out", s |-> alg.s, t |-> alg.t,
               forward |-> FsState_diff(alg.s, alg.t),
               backward |-> FsState_diff(alg.t, alg.s)]
    /\ UNCHANGED <<nodeVars, envVars, scenVars, memVars>>

\* s.apply_diff(&d); s.apply_diff(&d);
AlgApplyTwice ==
    /\ alg.pc = "twice_in"
    /\ LET once == FsState_apply_diff(alg.s, alg.diff)
           twice == FsState_apply_diff(once.files, alg.diff)
       IN alg' = [pc |-> "twice_out", s |-> alg.s, diff |-> alg.diff,
                  once |-> once.files, twice |-> twice.files,
                  conflicts |-> once.conflicts]
    /\ UNCHANGED <<nodeVars, envVars, scenVars, memVars>>

AlgNext == AlgDiffApply \/ AlgConflicts \/ AlgDiffBothWays \/ AlgApplyTwice
AlgebraSpec == AlgInit /\ [][AlgNext]_vars

\* C2: for all snapshots s and t, applying diff(s, t) to s with apply_diff
\* returns no conflicts and leaves s equal to t.
C2_DiffApplyInverse ==
    alg.pc = "diff_out" => (alg.conflicts = <<>> /\ alg.applied = alg.t)
\* diff(s, t) with a Created, a Removed or Modified entry has been applied.
C2_Witness ==
    /\ alg.pc = "diff_out"
    /\ \E f \in DOMAIN alg.diff, g \in DOMAIN alg.diff :
          alg.diff[f].kind = "Created" /\ alg.diff[g].kind # "Created"

\* The table of spec section 4.1, row by row.
ConflictTable(change, current) ==
    IF current = None
    THEN change.kind = "Modified"
    ELSE LET m == current[1]
         IN IF change.kind = "Created" THEN m.content_hash # change.meta.content_hash
            ELSE IF change.kind = "Removed" THEN m.content_hash # change.old_meta.content_hash
            ELSE ~(m.content_hash = change.old_meta.content_hash
                     \/ m.content_hash = change.new_meta.content_hash)

\* C3: FileChange::conflicts(current) equals the specified table for every
\* change and every current state.
C3_ConflictsTable ==
    alg.pc = "conflicts_out" => (alg.result = ConflictTable(alg.change, alg.current))
\* conflicts was computed for a Modified against a missing file and found TRUE.
C3_Witness ==
    /\ alg.pc = "conflicts_out"
    /\ alg.change.kind = "Modified" /\ alg.current = None /\ alg.result = TRUE

\* C14: for every snapshot s, diff(s, s) is empty.
C14_DiffSelfEmpty ==
    (alg.pc = "sym_out" /\ alg.s = alg.t) => FsStateDiff_is_empty(alg.forward)
\* diff(s, s) was computed for a snapshot with files.
C14_Witness == alg.pc = "sym_out" /\ alg.s = alg.t /\ DOMAIN alg.s = Paths

\* Created{new} <-> Removed{old = new}, Modified{old, new} <-> Modified{new, old}.
SwappedChange(change) ==
    CASE change.kind = "Created" -> Removed(change.meta)
      [] change.kind = "Removed" -> Created(change.old_meta)
      [] change.kind = "Modified" -> Modified(change.new_meta, change.old_meta)
SwappedDiff(diff) == [f \in DOMAIN diff |-> SwappedChange(diff[f])]

\* C15: for all snapshots s and t, diff(t, s) is diff(s, t) with every entry
\* swapped, over the same set of paths.
C15_DiffSymmetry ==
    alg.pc = "sym_out" => alg.backward = SwappedDiff(alg.forward)
\* Both diffs were computed and the forward one has a Removed and a Modified entry.
C15_Witness ==
    /\ alg.pc = "sym_out"
    /\ \E f \in DOMAIN alg.forward, g \in DOMAIN alg.forward :
          alg.forward[f].kind = "Removed" /\ alg.forward[g].kind = "Modified"

\* C16: for every diff d and snapshot s, applying d twice with apply_diff
\* gives the snapshot that applying it once gives.
C16_ApplyTwiceSame ==
    alg.pc = "twice_out" => alg.twice = alg.once
\* A diff was applied twice whose first application changed the snapshot on
\* one path and conflicted on another.
C16_Witness ==
    /\ alg.pc = "twice_out"
    /\ alg.once # alg.s
    /\ alg.conflicts # <<>>

\* ------------------------------------------------------------------- Node

\* The Node of peer p.
NodeOf(p) ==
    [this_state |-> this_state[p], other_state |-> other_state[p],
     conflicts |-> conflicts[p]]
SetNode(p, node) ==
    /\ this_state' = [this_state EXCEPT ![p] = node.this_state]
    /\ other_state' = [other_state EXCEPT ![p] = node.other_state]
    /\ conflicts' = [conflicts EXCEPT ![p] = node.conflicts]

Node_new(this, other) == [this_state |-> this, other_state |-> other, conflicts |-> <<>>]

\* The diff taken the wrong way round.
Node_changes_for_other_Reversed(node) == FsState_diff(node.this_state, node.other_state)

Node_changes_for_other(node) == FsState_diff(node.other_state, node.this_state)

\* An acknowledgement that is dropped: the peer view stays as it was.
Node_changes_acked_by_other_Dropped(node, diff) == node

Node_changes_acked_by_other(node, diff) ==
    [node EXCEPT !.other_state = FsState_apply_diff(node.other_state, diff).files]

\* diff.files filtered by !conflicts.contains(file_path)
AcceptedDiff(diff, confl) ==
    [f \in {g \in DOMAIN diff : g \notin SeqToSet(confl)} |-> diff[f]]

\* An apply that logs no conflict.
Node_apply_changes_from_other_mem_NoLog(node, diff) ==
    LET o == FsState_apply_diff(node.other_state, diff)
        t == FsState_apply_diff(node.this_state, diff)
    IN [node |-> [this_state |-> t.files, other_state |-> o.files,
                  conflicts |-> node.conflicts],
        accepted_diff |-> AcceptedDiff(diff, t.conflicts)]

\* An apply that leaves the peer view alone.
Node_apply_changes_from_other_mem_NoPeerView(node, diff) ==
    LET t == FsState_apply_diff(node.this_state, diff)
    IN [node |-> [this_state |-> t.files, other_state |-> node.other_state,
                  conflicts |-> node.conflicts \o t.conflicts],
        accepted_diff |-> AcceptedDiff(diff, t.conflicts)]

\* [node |-> the Node after, accepted_diff |-> the returned diff]
Node_apply_changes_from_other_mem(node, diff) ==
    LET o == FsState_apply_diff(node.other_state, diff)
        t == FsState_apply_diff(node.this_state, diff)
    IN [node |-> [this_state |-> t.files, other_state |-> o.files,
                  conflicts |-> node.conflicts \o t.conflicts],
        accepted_diff |-> AcceptedDiff(diff, t.conflicts)]

Node_has_conflicts(node) == node.conflicts # <<>>
Node_is_settle(node) == node.this_state = node.other_state

\* ---------------------------------------------------------------- MemSpec
\* Two Nodes in memory, as the unit tests drive them: both peers edited a
\* common snapshot, each computes changes_for_other, each applies the other's
\* diff with apply_changes_from_other_mem, each is then acknowledged its own.

MemInit ==
    /\ base \in FsStates
    /\ this_state \in [Peers -> FsStates]
    /\ other_state = [p \in Peers |-> base]
    /\ conflicts = [p \in Peers |-> <<>>]
    /\ mstage = [p \in Peers |-> "new"]
    /\ mstart = this_state
    /\ mdiff = [p \in Peers |-> EmptyMap]
    /\ maccepted = [p \in Peers |-> EmptyMap]
    /\ edited = [p \in Peers |-> {}]
    /\ edits = 0
    /\ hs_log = [p \in Peers |-> <<>>]
    /\ IdleEnv /\ IdleAlg

\* let diff = node.changes_for_other();
MemChangesForOther(p) ==
    /\ mstage[p] = "new"
    /\ mdiff' = [mdiff EXCEPT ![p] = Node_changes_for_other(NodeOf(p))]
    /\ mstage' = [mstage EXCEPT ![p] = "diffed"]
    /\ UNCHANGED <<nodeVars, envVars, scenVars, mstart, maccepted, alg>>

\* node.apply_changes_from_other_mem(&diff_of_the_other);
MemApply(p) ==
    /\ mstage[p] = "diffed"
    /\ mstage[Other(p)] # "new"
    /\ LET r == Node_apply_changes_from_other_mem(NodeOf(p), mdiff[Other(p)])
       IN /\ SetNode(p, r.node)
          /\ maccepted' = [maccepted EXCEPT ![p] = r.accepted_diff]
    /\ mstage' = [mstage EXCEPT ![p] = "applied"]
    /\ UNCHANGED <<envVars, scenVars, mstart, mdiff, alg>>

\* node.changes_acked_by_other(&own_diff);
MemAcked(p) ==
    /\ mstage[p] = "applied"
    /\ mstage[Other(p)] \in {"applied", "acked"}
    /\ SetNode(p, Node_changes_acked_by_other(NodeOf(p), mdiff[p]))
    /\ mstage' = [mstage EXCEPT ![p] = "acked"]
    /\ UNCHANGED <<envVars, scenVars, mstart, mdiff, maccepted, alg>>

MemNext == \E p \in Peers : MemChangesForOther(p) \/ MemApply(p) \/ MemAcked(p)
MemSpec == MemInit /\ [][MemNext]_vars

BothAt(stages) == \A p \in Peers : mstage[p] \in stages

\* C4: from a common snapshot, peers that edited disjoint path sets, applied each
\* other's diff and were acknowledged their own have empty conflict logs, are
\* settled, and hold the same this_state.
C4_DisjointConverge ==
    (BothAt({"acked"}) /\ (DOMAIN mdiff[1]) \cap (DOMAIN mdiff[2]) = {}) =>
        /\ \A p \in Peers : ~Node_has_conflicts(NodeOf(p)) /\ Node_is_settle(NodeOf(p))
        /\ this_state[1] = this_state[2]
\* Both exchanges are done and each peer had edited a path the other had not.
C4_Witness ==
    /\ BothAt({"acked"})
    /\ (DOMAIN mdiff[1]) \cap (DOMAIN mdiff[2]) = {}
    /\ mdiff[1] # EmptyMap /\ mdiff[2] # EmptyMap
    /\ this_state[1] # base

\* Both peers wrote path f, both modifying it or both creating it, with
\* different content, and f is the only path both touched.
DivergentWrite(f) ==
    /\ (DOMAIN mdiff[1]) \cap (DOMAIN mdiff[2]) = {f}
    /\ mdiff[1][f].kind = mdiff[2][f].kind
    /\ mdiff[1][f].kind \in {"Created", "Modified"}
    /\ InstalledMeta(mdiff[1][f]) # InstalledMeta(mdiff[2][f])

\* C6: after both peers wrote different content to the same path and each
\* applied the other's diff, each conflict log holds exactly that path, each
\* accepted diff excludes it, each peer keeps its own content, neither is settled.
C6_DivergentWriteConflicts ==
    \A f \in Paths :
        (BothAt({"applied"}) /\ DivergentWrite(f)) =>
            \A p \in Peers :
                /\ conflicts[p] = <<f>>
                /\ f \notin DOMAIN maccepted[p]
                /\ MapGet(this_state[p], f) = MapGet(mstart[p], f)
                /\ MapGet(this_state[p], f) = Some(InstalledMeta(mdiff[p][f]))
                /\ ~Node_is_settle(NodeOf(p))
\* Both applied, after both modified one existing file differently.
C6_Witness ==
    /\ BothAt({"applied"})
    /\ \E f \in Paths : DivergentWrite(f) /\ mdiff[1][f].kind = "Modified"

\* Both peers created the same files with the same content and changed nothing else.
SameCreate ==
    /\ mdiff[1] = mdiff[2]
    /\ mdiff[1] # EmptyMap
    /\ \A f \in DOMAIN mdiff[1] : mdiff[1][f].kind = "Created"

\* C7: after both peers created the same path with identical content and each
\* applied the other's diff, neither has a conflict, both are settled, and both
\* this_state values equal the common post-edit snapshot.
C7_SameCreateConverges ==
    (BothAt({"applied"}) /\ SameCreate) =>
        \A p \in Peers :
            /\ ~Node_has_conflicts(NodeOf(p))
            /\ Node_is_settle(NodeOf(p))
            /\ this_state[p] = mstart[1] /\ this_state[p] = mstart[2]
\* Both applied the other's Created entry for a file both had created.
C7_Witness ==
    /\ BothAt({"applied"}) /\ SameCreate
    /\ mstart[1] # base

\* body applied to the value of v, which is computed once.
With(v, body(_)) == CHOOSE out \in {body(x) : x \in {v}} : TRUE

\* ----------------------------------------------------------- ContentStore

\* ContentStore::default()
ContentStore_default == [contents |-> EmptyMap, new_contents |-> <<>>]

\* An insert that never journals.
ContentStore_insert_NoJournal(cs, hash, content) ==
    [contents |-> MapInsert(cs.contents, hash, content),
     new_contents |-> cs.new_contents]

\* An insert that journals the hash every time.
ContentStore_insert_AlwaysJournal(cs, hash, content) ==
    [contents |-> MapInsert(cs.contents, hash, content),
     new_contents |-> Append(cs.new_contents, hash)]

\* HashMap::insert returns None when the key was absent: only then is the hash
\* journaled. The value stored under the key is replaced either way.
ContentStore_insert(cs, hash, content) ==
    [contents |-> MapInsert(cs.contents, hash, content),
     new_contents |-> IF hash \in DOMAIN cs.contents
                      THEN cs.new_contents
                      ELSE Append(cs.new_contents, hash)]

ContentStore_add(cs, content) == ContentStore_insert(cs, Hash(content), content)

\* Ok(bytes) is Some(bytes); Err("Content not found in content store") is None.
ContentStore_get(cs, hash) == MapGet(cs.contents, hash)

ContentStore_has(cs, hash) == hash \in DOMAIN cs.contents

\* [store |-> the store after, drained |-> the returned list]
ContentStore_drain_new_contents(cs) ==
    [store |-> [cs EXCEPT !.new_contents = <<>>], drained |-> cs.new_contents]

RECURSIVE add_all(_, _)
\* for content in new_content { content_store.add(content); }
add_all(cs, new_content) ==
    IF new_content = <<>> THEN cs
    ELSE add_all(ContentStore_add(cs, Head(new_content)), Tail(new_content))

\* hashes.into_iter().map(|hash| content_store.get(&hash).unwrap().to_vec())
contents_of(cs, hashes) == [i \in 1 .. Len(hashes) |-> cs.contents[hashes[i]]]

\* ------------------------------------------------ ContentStore, driven alone

\* A fresh store and a caller that adds, inserts and drains. Beside the store
\* the caller keeps, on its own, the hashes it has ever handed in (ever), those
\* it handed in for the first time since its last drain (fresh), whether it
\* handed one in again since then (readd, had_readd at the drain), the last
\* drain's result (last) and what it expected (expect).
StoreInit ==
    /\ alg = [pc |-> "store", cs |-> ContentStore_default, ever |-> {}, fresh |-> <<>>,
              readd |-> FALSE, had_readd |-> FALSE, last |-> None, expect |-> None, drains |-> 0, calls |-> 0]
    /\ IdleNode /\ IdleEnv /\ IdleScen /\ IdleMem

Handed(hash) ==
    [alg EXCEPT !.ever = @ \cup {hash},
                !.fresh = IF hash \in alg.ever THEN @ ELSE Append(@, hash),
                !.readd = @ \/ hash \in alg.ever,
                !.drains = 0,
                !.calls = @ + 1]

\* content_store.add(content)
StoreAdd(content) ==
    /\ alg.pc = "store" /\ alg.calls < MaxStoreCalls
    /\ alg' = [Handed(Hash(content)) EXCEPT !.cs = ContentStore_add(alg.cs, content)]
    /\ UNCHANGED <<nodeVars, envVars, scenVars, memVars>>

\* content_store.insert(hash, content)
StoreInsert(hash, content) ==
    /\ alg.pc = "store" /\ alg.calls < MaxStoreCalls
    /\ alg' = [Handed(hash) EXCEPT !.cs = ContentStore_insert(alg.cs, hash, content)]
    /\ UNCHANGED <<nodeVars, envVars, scenVars, memVars>>

\* content_store.drain_new_contents()
StoreDrain ==
    /\ alg.pc = "store" /\ alg.calls < MaxStoreCalls
    /\ LET d == ContentStore_drain_new_contents(alg.cs)
       IN alg' = [alg EXCEPT !.cs = d.store, !.last = Some(d.drained),
                             !.expect = Some(alg.fresh), !.fresh = <<>>,
                             !.readd = FALSE, !.had_readd = alg.readd,
                             !.drains = IF @ < 2 THEN @ + 1 ELSE @,
                             !.calls = @ + 1]
    /\ UNCHANGED <<nodeVars, envVars, scenVars, memVars>>

StoreNext ==
    \/ \E content \in Bytes : StoreAdd(content)
    \/ \E hash \in ContentHashes, content \in Bytes : StoreInsert(hash, content)
    \/ StoreDrain
StoreSpec == StoreInit /\ [][StoreNext]_vars

\* C12: after any sequence of add and insert calls drain_new_contents returns
\* exactly the hashes first inserted since the previous drain, each once and
\* none for content handed in again, and a drain right after a drain returns
\* the empty list.
C12_JournalExact ==
    (alg.pc = "store" /\ alg.drains > 0) =>
        /\ alg.last = alg.expect
        /\ alg.drains = 2 => alg.last = Some(<<>>)
\* A drain returned hashes after the caller had handed in again, since the
\* drain before, content the store already held.
C12_Witness ==
    /\ alg.pc = "store"
    /\ alg.drains = 1
    /\ alg.last # Some(<<>>)
    /\ alg.had_readd

\* ------------------------------------ ContentStore, every operation

\* ContentStore::remove: the journal is left as it is.
ContentStore_remove(cs, hash) == [cs EXCEPT !.contents = MapRemove(@, hash)]

\* A fresh store and a caller of add, insert, remove and of
\* drain_new_contents followed by get(..).unwrap() on each drained hash, as
\* messages_for_other and Node::refresh_paths do. overwrote tells that an
\* insert or add for a hash the store held changed the bytes under it,
\* rejournaled that it lengthened the journal.
OpsInit ==
    /\ alg = [pc |-> "ops", cs |-> ContentStore_default, overwrote |-> FALSE,
              rejournaled |-> FALSE, calls |-> 0]
    /\ IdleNode /\ IdleEnv /\ IdleScen /\ IdleMem

\* The caller's record after an insert that took the store to next.
Inserted(hash, next) ==
    [alg EXCEPT !.cs = next,
                !.overwrote = @ \/ (/\ hash \in DOMAIN alg.cs.contents
                                    /\ next.contents[hash] # alg.cs.contents[hash]),
                !.rejournaled = @ \/ (/\ hash \in DOMAIN alg.cs.contents
                                      /\ next.new_contents # alg.cs.new_contents),
                !.calls = @ + 1]

OpsAdd(content) ==
    /\ alg.pc = "ops" /\ alg.calls < MaxStoreOps
    /\ alg' = Inserted(Hash(content), ContentStore_add(alg.cs, content))
    /\ UNCHANGED <<nodeVars, envVars, scenVars, memVars>>

OpsInsert(hash, content) ==
    /\ alg.pc = "ops" /\ alg.calls < MaxStoreOps
    /\ alg' = Inserted(hash, ContentStore_insert(alg.cs, hash, content))
    /\ UNCHANGED <<nodeVars, envVars, scenVars, memVars>>

OpsRemove(hash) ==
    /\ alg.pc = "ops" /\ alg.calls < MaxStoreOps
    /\ alg' = [alg EXCEPT !.cs = ContentStore_remove(alg.cs, hash), !.calls = @ + 1]
    /\ UNCHANGED <<nodeVars, envVars, scenVars, memVars>>

\* drain_new_contents(), then get(&hash).unwrap() for each drained hash: the
\* unwrap panics when a hash is not in the store.
OpsDrainAndGet ==
    /\ alg.pc = "ops" /\ alg.calls < MaxStoreOps
    /\ LET d == ContentStore_drain_new_contents(alg.cs)
       IN alg' = IF \E i \in 1..Len(d.drained) : ContentStore_get(d.store, d.drained[i]) = None
                 THEN [alg EXCEPT !.pc = "panicked", !.cs = d.store, !.calls = @ + 1]
                 ELSE [alg EXCEPT !.cs = d.store, !.calls = @ + 1]
    /\ UNCHANGED <<nodeVars, envVars, scenVars, memVars>>

OpsNext ==
    \/ \E content \in Bytes : OpsAdd(content)
    \/ \E hash \in ContentHashes, content \in Bytes : OpsInsert(hash, content)
    \/ \E hash \in ContentHashes : OpsRemove(hash)
    \/ OpsDrainAndGet
StoreOpsSpec == OpsInit /\ [][OpsNext]_vars

\* C28: the store never changes a blob it holds: insert or add for a hash that
\* is present leaves the bytes under that hash as they are and does not
\* journal the hash again.
C28_BlobsNeverMutated ==
    alg.pc \in {"ops", "panicked"} => ~alg.overwrote /\ ~alg.rejournaled
\* After an add, an insert for the hash the store then held: the journal has
\* the one entry of the add.
C28_Witness ==
    /\ alg.pc = "ops"
    /\ alg.calls = 2
    /\ alg.overwrote
    /\ alg.cs.new_contents = <<Hash(1)>>
    /\ ~alg.rejournaled

\* C29: after any sequence of add, insert, remove and drain_new_contents every
\* hash in the journal is in the store, so the unwrap on a drained hash never
\* panics.
C29_JournalInStore ==
    /\ alg.pc # "panicked"
    /\ alg.pc = "ops" =>
          \A i \in 1..Len(alg.cs.new_contents) :
              ContentStore_has(alg.cs, alg.cs.new_contents[i])
\* A journal of two hashes, both in the store, after an add and an insert.
C29_Witness ==
    /\ alg.pc = "ops"
    /\ Len(alg.cs.new_contents) = 2
    /\ \A i \in 1..2 : ContentStore_has(alg.cs, alg.cs.new_contents[i])

\* ------------------------------------------------------- FsState and disk

\* What a disk holds at a path that is not a regular file (a directory, say).
OtherFileType == 0

\* FileMetadata::from_fs: reads the file and adds its content to the store.
\* [meta |-> Option<FileMetadata>, store |-> the store after, err |-> whether
\* std::fs::read failed with an error other than NotFound]
FileMetadata_from_fs(files_on_disk, file, cs) ==
    IF file \notin DOMAIN files_on_disk
    THEN [meta |-> None, store |-> cs, err |-> FALSE]
    ELSE IF files_on_disk[file] = OtherFileType
    THEN [meta |-> None, store |-> cs, err |-> TRUE]
    ELSE [meta |-> Some(FileMetadata(Hash(files_on_disk[file]))),
          store |-> ContentStore_add(cs, files_on_disk[file]), err |-> FALSE]

\* FsState::from_disk: the snapshot of every regular file under the root.
RECURSIVE from_disk_loop(_, _, _, _)
from_disk_loop(files, files_on_disk, cs, keys) ==
    IF keys = <<>> THEN [files |-> files, store |-> cs]
    ELSE LET r == FileMetadata_from_fs(files_on_disk, Head(keys), cs)
         IN from_disk_loop(MapInsert(files, Head(keys), r.meta[1]), files_on_disk,
                           r.store, Tail(keys))
FsState_from_disk(files_on_disk, cs) ==
    from_disk_loop(EmptyMap, files_on_disk, cs,
                   SortedKeys({f \in DOMAIN files_on_disk :
                                   files_on_disk[f] # OtherFileType}))

\* A refresh that does not notice a vanished file.
FsState_refresh_path_KeepsVanished(self, files_on_disk, path, cs) ==
    LET r == FileMetadata_from_fs(files_on_disk, path, cs)
    IN IF r.meta # None
       THEN LET new_metadata == r.meta[1]
            IN IF path \in DOMAIN self
               THEN IF self[path].content_hash # new_metadata.content_hash
                    THEN [files |-> MapInsert(self, path, new_metadata), store |-> r.store,
                          change |-> Some(Modified(self[path], new_metadata))]
                    ELSE [files |-> self, store |-> r.store, change |-> None]
               ELSE [files |-> MapInsert(self, path, new_metadata), store |-> r.store,
                     change |-> Some(Created(new_metadata))]
       ELSE [files |-> self, store |-> r.store, change |-> None]

\* FsState::refresh_path.
\* [files |-> snapshot after, store |-> store after, change |-> Option<FileChange>]
FsState_refresh_path(self, files_on_disk, path, cs) ==
    LET r == FileMetadata_from_fs(files_on_disk, path, cs)
    IN IF r.meta # None
       THEN LET new_metadata == r.meta[1]
            IN IF path \in DOMAIN self
               THEN IF self[path].content_hash # new_metadata.content_hash
                    THEN [files |-> MapInsert(self, path, new_metadata), store |-> r.store,
                          change |-> Some(Modified(self[path], new_metadata))]
                    ELSE [files |-> self, store |-> r.store, change |-> None]
               ELSE [files |-> MapInsert(self, path, new_metadata), store |-> r.store,
                     change |-> Some(Created(new_metadata))]
       ELSE IF path \notin DOMAIN files_on_disk
       THEN IF path \in DOMAIN self
            THEN [files |-> MapRemove(self, path), store |-> r.store,
                  change |-> Some(Removed(self[path]))]
            ELSE [files |-> self, store |-> r.store, change |-> None]
       ELSE [files |-> self, store |-> r.store, change |-> None]

\* FsState::refresh_paths. [files, store, diff]
RECURSIVE refresh_paths_loop(_, _, _, _, _)
refresh_paths_loop(files, files_on_disk, cs, diff, paths) ==
    IF paths = <<>> THEN [files |-> files, store |-> cs, diff |-> diff]
    ELSE LET r == FsState_refresh_path(files, files_on_disk, Head(paths), cs)
         IN refresh_paths_loop(r.files, files_on_disk, r.store,
                               IF r.change = None THEN diff
                               ELSE MapInsert(diff, Head(paths), r.change[1]),
                               Tail(paths))
FsState_refresh_paths(self, files_on_disk, paths, cs) ==
    refresh_paths_loop(self, files_on_disk, cs, EmptyMap, paths)

\* An entry step that, on a conflict, records in the snapshot what the disk
\* holds.
apply_diff_to_disk_entry_AdoptsDisk(st, file_path, change) ==
    LET r == FileMetadata_from_fs(st.disk, file_path, st.store)
    IN IF r.err
       THEN [st EXCEPT !.ok = FALSE]
       ELSE IF FileChange_conflicts(change, r.meta)
       THEN [st EXCEPT !.store = r.store, !.conflicts = Append(@, file_path),
                       !.files = IF r.meta = None THEN MapRemove(@, file_path)
                                 ELSE MapInsert(@, file_path, r.meta[1])]
       ELSE IF change.kind = "Removed"
       THEN [st EXCEPT !.store = r.store,
                       !.disk = MapRemove(@, file_path),
                       !.files = MapRemove(@, file_path),
                       !.touched = IF file_path \in DOMAIN st.disk
                                   THEN @ \cup {file_path} ELSE @]
       ELSE LET content == ContentStore_get(r.store, InstalledMeta(change).content_hash)
            IN IF content = None
               THEN [st EXCEPT !.store = r.store, !.ok = FALSE]
               ELSE [st EXCEPT !.store = r.store,
                               !.disk = MapInsert(@, file_path, content[1]),
                               !.files = MapInsert(@, file_path, InstalledMeta(change)),
                               !.touched = @ \cup {file_path}]

\* The state apply_diff_to_disk works on: the snapshot, the files on disk, the
\* store, the conflict list, whether it is still Ok, and the paths whose files
\* it wrote or removed (which the watcher reports).
\* One entry of its loop:
apply_diff_to_disk_entry(st, file_path, change) ==
    LET r == FileMetadata_from_fs(st.disk, file_path, st.store)
    IN IF r.err
       THEN [st EXCEPT !.ok = FALSE]
       ELSE IF FileChange_conflicts(change, r.meta)
       THEN [st EXCEPT !.store = r.store, !.conflicts = Append(@, file_path)]
       ELSE IF change.kind = "Removed"
       THEN [st EXCEPT !.store = r.store,
                       !.disk = MapRemove(@, file_path),
                       !.files = MapRemove(@, file_path),
                       !.touched = IF file_path \in DOMAIN st.disk
                                   THEN @ \cup {file_path} ELSE @]
       ELSE LET content == ContentStore_get(r.store, InstalledMeta(change).content_hash)
            IN IF content = None
               THEN [st EXCEPT !.store = r.store, !.ok = FALSE]
               ELSE [st EXCEPT !.store = r.store,
                               !.disk = MapInsert(@, file_path, content[1]),
                               !.files = MapInsert(@, file_path, InstalledMeta(change)),
                               !.touched = @ \cup {file_path}]

RECURSIVE apply_diff_to_disk_loop(_, _, _)
apply_diff_to_disk_loop(st, diff, keys) ==
    IF keys = <<>> \/ ~st.ok THEN st
    ELSE With(apply_diff_to_disk_entry(st, Head(keys), diff[Head(keys)]),
              LAMBDA next : apply_diff_to_disk_loop(next, diff, Tail(keys)))

\* FsState::apply_diff_to_disk.
FsState_apply_diff_to_disk(self, diff, files_on_disk, cs) ==
    With([files |-> self, disk |-> files_on_disk, store |-> cs, conflicts |-> <<>>,
          ok |-> TRUE, touched |-> {}],
         LAMBDA st : apply_diff_to_disk_loop(st, diff, SortedKeys(DOMAIN diff)))

\* --------------------------------------------------------------- messages

Changes(new_content, diff) ==
    [kind |-> "Changes", new_content |-> new_content, diff |-> diff]
ChangesResponse(accepted_diff) ==
    [kind |-> "ChangesResponse", accepted_diff |-> accepted_diff]
Announce(state) == [kind |-> "Announce", state |-> state]
Override(content) == [kind |-> "Override", content |-> content]
OverrideAck == [kind |-> "OverrideAck"]
\* AnyNodeMessage::Init(_) and AnyNodeMessage::Regular(_)
IsInit(msg) == msg.kind \in {"Announce", "Override", "OverrideAck"}
IsRegular(msg) == msg.kind \in {"Changes", "ChangesResponse"}

\* ------------------------------------------------- Node, on disk

\* A receiver that reports the whole diff as accepted.
Node_apply_changes_from_other_to_disk_AcceptAll(node, diff, files_on_disk, cs) ==
    LET r == FsState_apply_diff_to_disk(node.this_state, diff, files_on_disk, cs)
    IN [node |-> [node EXCEPT !.this_state = r.files,
                              !.conflicts = IF r.ok THEN @ \o r.conflicts ELSE @],
        disk |-> r.disk, store |-> r.store,
        accepted_diff |-> diff,
        ok |-> r.ok, touched |-> r.touched]

\* A receiver that keeps only the conflicts of the last diff in its log.
Node_apply_changes_from_other_to_disk_ResetsLog(node, diff, files_on_disk, cs) ==
    LET r == FsState_apply_diff_to_disk(node.this_state, diff, files_on_disk, cs)
    IN [node |-> [node EXCEPT !.this_state = r.files,
                              !.conflicts = IF r.ok THEN r.conflicts ELSE @],
        disk |-> r.disk, store |-> r.store,
        accepted_diff |-> AcceptedDiff(diff, r.conflicts),
        ok |-> r.ok, touched |-> r.touched]

\* Node::apply_changes_from_other_to_disk.
\* [node, disk, store, accepted_diff, ok, touched]
Node_apply_changes_from_other_to_disk(node, diff, files_on_disk, cs) ==
    LET r == FsState_apply_diff_to_disk(node.this_state, diff, files_on_disk, cs)
    IN [node |-> [node EXCEPT !.this_state = r.files,
                              !.conflicts = IF r.ok THEN @ \o r.conflicts ELSE @],
        disk |-> r.disk, store |-> r.store,
        accepted_diff |-> AcceptedDiff(diff, r.conflicts),
        ok |-> r.ok, touched |-> r.touched]

\* A handler that applies an inbound Changes to the peer view as well, as
\* handle_message_mem does.
Node_handle_message_disk_AlsoPeerView(node, message, files_on_disk, cs) ==
    IF message.kind = "Changes"
    THEN LET r == Node_apply_changes_from_other_to_disk(
                      node, message.diff, files_on_disk, add_all(cs, message.new_content))
         IN [node |-> [r.node EXCEPT !.other_state =
                                         FsState_apply_diff(@, message.diff).files],
             disk |-> r.disk, store |-> r.store,
             response |-> IF r.ok THEN Some(ChangesResponse(r.accepted_diff)) ELSE None,
             ok |-> r.ok, touched |-> r.touched]
    ELSE [node |-> Node_changes_acked_by_other(node, message.accepted_diff),
          disk |-> files_on_disk, store |-> cs, response |-> None,
          ok |-> TRUE, touched |-> {}]

\* A handler that answers a ChangesResponse with an empty ChangesResponse.
Node_handle_message_disk_AckAnswers(node, message, files_on_disk, cs) ==
    IF message.kind = "Changes"
    THEN LET r == Node_apply_changes_from_other_to_disk(
                      node, message.diff, files_on_disk, add_all(cs, message.new_content))
         IN [node |-> r.node, disk |-> r.disk, store |-> r.store,
             response |-> IF r.ok THEN Some(ChangesResponse(r.accepted_diff)) ELSE None,
             ok |-> r.ok, touched |-> r.touched]
    ELSE [node |-> Node_changes_acked_by_other(node, message.accepted_diff),
          disk |-> files_on_disk, store |-> cs,
          response |-> Some(ChangesResponse(EmptyMap)),
          ok |-> TRUE, touched |-> {}]

\* Node::handle_message_disk.
\* [node, disk, store, response |-> Option<NodeMessage>, ok, touched]
Node_handle_message_disk(node, message, files_on_disk, cs) ==
    IF message.kind = "Changes"
    THEN LET r == Node_apply_changes_from_other_to_disk(
                      node, message.diff, files_on_disk, add_all(cs, message.new_content))
         IN [node |-> r.node, disk |-> r.disk, store |-> r.store,
             response |-> IF r.ok THEN Some(ChangesResponse(r.accepted_diff)) ELSE None,
             ok |-> r.ok, touched |-> r.touched]
    ELSE [node |-> Node_changes_acked_by_other(node, message.accepted_diff),
          disk |-> files_on_disk, store |-> cs, response |-> None,
          ok |-> TRUE, touched |-> {}]

\* Node::refresh_paths. [node, store, response |-> Option<NodeMessage>]
Node_refresh_paths(node, files_on_disk, paths, cs) ==
    LET r == FsState_refresh_paths(node.this_state, files_on_disk, paths, cs)
        d == ContentStore_drain_new_contents(r.store)
    IN IF r.diff = EmptyMap
       THEN [node |-> [node EXCEPT !.this_state = r.files], store |-> r.store,
             response |-> None]
       ELSE [node |-> [node EXCEPT !.this_state = r.files], store |-> d.store,
             response |-> Some(Changes(contents_of(r.store, d.drained), r.diff))]

\* Node::messages_for_other. [node, store, message]
Node_messages_for_other(node, cs) ==
    LET diff == Node_changes_for_other(node)
        d == ContentStore_drain_new_contents(cs)
    IN [node |-> node, store |-> d.store,
        message |-> Changes(contents_of(cs, d.drained), diff)]

\* ------------------------------------------------- run_node, steady state

\* The files a snapshot describes, and a store holding exactly their contents
\* with an empty journal.
ContentOf(hash) == hash[2]
DiskOf(snapshot) == [f \in DOMAIN snapshot |-> ContentOf(snapshot[f].content_hash)]
StoreOf(snapshot) ==
    [contents |-> [h \in {snapshot[f].content_hash : f \in DOMAIN snapshot} |-> ContentOf(h)],
     new_contents |-> <<>>]

\* A channel that hands over the newest message first.
Sent_Lifo(chan, p, response) ==
    IF response = None THEN chan ELSE [chan EXCEPT ![Other(p)] = <<response[1]>> \o @]

\* output.send(msg): the message joins the other peer's input channel.
Sent(chan, p, response) ==
    IF response = None THEN chan ELSE [chan EXCEPT ![Other(p)] = Append(@, response[1])]

\* Two peers in the steady-state loop, in sync on a common snapshot.
RunInit ==
    /\ base \in Maps(Paths, {FileMetadata(Hash(b)) : b \in DiskBytes})
    /\ pc = [p \in Peers |-> "running"]
    /\ node_init = [p \in Peers |-> <<>>]
    /\ this_state = [p \in Peers |-> base]
    /\ other_state = [p \in Peers |-> base]
    /\ conflicts = [p \in Peers |-> <<>>]
    /\ disk = [p \in Peers |-> DiskOf(base)]
    /\ content_store = [p \in Peers |-> StoreOf(base)]
    /\ watch_rx = [p \in Peers |-> {}]
    /\ input = [p \in Peers |-> <<>>]
    /\ edited = [p \in Peers |-> {}]
    /\ edits = MaxEdits
    /\ hs_log = [p \in Peers |-> <<>>]
    /\ IdleMem /\ IdleAlg

\* The user writes `content` to file f under peer p's root; the watcher reports f.
UserWrite(p, f, content) ==
    /\ edits > 0
    /\ MapGet(disk[p], f) # Some(content)
    /\ disk' = [disk EXCEPT ![p] = MapInsert(@, f, content)]
    /\ watch_rx' = [watch_rx EXCEPT ![p] = @ \cup {f}]
    /\ edited' = [edited EXCEPT ![p] = @ \cup {f}]
    /\ edits' = edits - 1
    /\ UNCHANGED <<nodeVars, pc, node_init, content_store, input, base, hs_log,
                   memVars, alg>>

\* The user deletes file f under peer p's root; the watcher reports f.
UserRemove(p, f) ==
    /\ edits > 0
    /\ f \in DOMAIN disk[p]
    /\ disk' = [disk EXCEPT ![p] = MapRemove(@, f)]
    /\ watch_rx' = [watch_rx EXCEPT ![p] = @ \cup {f}]
    /\ edited' = [edited EXCEPT ![p] = @ \cup {f}]
    /\ edits' = edits - 1
    /\ UNCHANGED <<nodeVars, pc, node_init, content_store, input, base, hs_log,
                   memVars, alg>>

\* The select arm recv(input): one message is taken and handled.
RunRecv(p) ==
    /\ pc[p] = "running"
    /\ input[p] # <<>>
    /\ LET msg == Head(input[p])
           rest == [input EXCEPT ![p] = Tail(@)]
       IN IF ~IsRegular(msg)
          THEN /\ pc' = [pc EXCEPT ![p] = "err_expected_regular"]
               /\ input' = rest
               /\ UNCHANGED <<nodeVars, disk, content_store, watch_rx>>
          ELSE LET r == Node_handle_message_disk(NodeOf(p), msg, disk[p], content_store[p])
               IN /\ SetNode(p, r.node)
                  /\ disk' = [disk EXCEPT ![p] = r.disk]
                  /\ content_store' = [content_store EXCEPT ![p] = r.store]
                  /\ watch_rx' = [watch_rx EXCEPT ![p] = @ \cup r.touched]
                  /\ pc' = [pc EXCEPT ![p] = IF r.ok THEN "running" ELSE "err_missing_content"]
                  /\ input' = Sent(rest, p, r.response)
    /\ UNCHANGED <<node_init, scenVars, memVars, alg>>

\* The select arm recv(watch_rx): debounce_watcher collects the batch, the
\* paths are refreshed and a non-empty diff is sent as Changes.
RunRefresh(p, batch) ==
    /\ pc[p] = "running"
    /\ batch # {} /\ batch \subseteq watch_rx[p]
    /\ LET r == Node_refresh_paths(NodeOf(p), disk[p], SortedKeys(batch), content_store[p])
       IN /\ SetNode(p, r.node)
          /\ content_store' = [content_store EXCEPT ![p] = r.store]
          /\ input' = Sent(input, p, r.response)
    /\ watch_rx' = [watch_rx EXCEPT ![p] = @ \ batch]
    /\ UNCHANGED <<pc, node_init, disk, scenVars, memVars, alg>>

Next ==
    \E p \in Peers :
        \/ \E f \in Paths, content \in DiskBytes : UserWrite(p, f, content)
        \/ \E f \in Paths : UserRemove(p, f)
        \/ RunRecv(p)
        \/ \E batch \in SUBSET Paths : RunRefresh(p, batch)
Spec == RunInit /\ [][Next]_vars

\* No message in flight, no watcher event pending, both loops running.
Quiescent ==
    \A p \in Peers : pc[p] = "running" /\ input[p] = <<>> /\ watch_rx[p] = {}

\* C1: when no message is in flight, no refresh is pending and both conflict
\* logs are empty, both disks and both snapshots hold the same mapping.
C1_QuietMeansEqual ==
    (Quiescent /\ \A p \in Peers : conflicts[p] = <<>>) =>
        /\ disk[1] = disk[2]
        /\ this_state[1] = this_state[2]

\* C5: peers that started Running from a common snapshot and edited disjoint
\* paths are, once every Changes and ChangesResponse has been delivered, both
\* settled (snapshot = peer view), with equal snapshots and empty conflict logs.
C5_DisjointSettles ==
    (Quiescent /\ edited[1] \cap edited[2] = {}) =>
        /\ \A p \in Peers : Node_is_settle(NodeOf(p)) /\ conflicts[p] = <<>>
        /\ this_state[1] = this_state[2]

\* The next message a running peer takes is a Changes whose every Created or
\* Modified entry has its content in the store once the blobs are added.
HeadChangesPresent(p) ==
    (pc[p] = "running" /\ input[p] # <<>> /\ Head(input[p]).kind = "Changes") =>
        LET msg == Head(input[p])
            store == add_all(content_store[p], msg.new_content)
        IN \A f \in DOMAIN msg.diff :
              msg.diff[f].kind \in {"Created", "Modified"} =>
                  ContentStore_has(store, InstalledMeta(msg.diff[f]).content_hash)

\* C10: handling an inbound Changes never fails for missing content: after the
\* message's blobs are added, the store holds the content of every Created or
\* Modified entry of the diff, whatever refreshes and messages came before.
C10_ContentPresent ==
    \A p \in Peers : pc[p] # "err_missing_content" /\ HeadChangesPresent(p)
\* A peer whose user wrote nothing holds a file with content that was in no
\* store at the start: it came with a Changes message and was written from the store.
C10_Witness ==
    \E p \in Peers, f \in Paths :
        /\ edited[p] = {}
        /\ f \in DOMAIN disk[p]
        /\ ~ContentStore_has(StoreOf(base), Hash(disk[p][f]))
        /\ MapGet(this_state[p], f) = Some(FileMetadata(Hash(disk[p][f])))

\* The conflicts changes_acked_by_other finds ("Unexpected conflicts in acked
\* changes") when the running peer p takes the ChangesResponse that is next.
AckConflicts(p) ==
    IF pc[p] = "running" /\ input[p] # <<>> /\ Head(input[p]).kind = "ChangesResponse"
    THEN FsState_apply_diff(other_state[p], Head(input[p]).accepted_diff).conflicts
    ELSE <<>>

\* C19: in the steady-state protocol, applying the accepted diff of a received
\* ChangesResponse to the peer view never finds a conflict, so the peer view
\* takes every accepted change.
C19_AckNeverConflicts == \A p \in Peers : AckConflicts(p) = <<>>
\* A ChangesResponse with a non-empty accepted diff is next for a running peer.
C19_Witness ==
    \E p \in Peers :
        /\ pc[p] = "running" /\ input[p] # <<>>
        /\ Head(input[p]).kind = "ChangesResponse"
        /\ Head(input[p]).accepted_diff # EmptyMap

\* Path f went through a divergent-edit conflict (each peer refused the
\* other's change to it), the two disks now agree on it, and every message and
\* watcher event has been consumed.
ResolvedByUser(f) ==
    /\ Quiescent
    /\ \A p \in Peers : f \in SeqToSet(conflicts[p])
    /\ MapGet(disk[1], f) = MapGet(disk[2], f)
SettledOn(p, f) == MapGet(this_state[p], f) = MapGet(other_state[p], f)

\* C11: after a divergent-edit conflict on a path, once a user edit or delete
\* has made the path's content the same on both disks and the resulting
\* Changes and ChangesResponse are delivered, both peers are settled on the path.
C11_UserEditResolves ==
    \A f \in Paths : ResolvedByUser(f) => \A p \in Peers : SettledOn(p, f)
\* Both peers created the path with different content, both refused the
\* other's Created, and one user then wrote the other's content.
C11_Witness ==
    \E f \in Paths :
        /\ ResolvedByUser(f)
        /\ f \notin DOMAIN base
        /\ f \in DOMAIN disk[1]
        /\ edits = 0

\* ------------------------------------------------- two Nodes, one direction

\* A store to which the contents of a snapshot have just been added.
JournaledStoreOf(snapshot) ==
    add_all(ContentStore_default,
            SortedKeys({snapshot[f].content_hash[2] : f \in DOMAIN snapshot}))

\* Node::new(state1, state2) and Node::new(state2, state1): each peer view is
\* the other's snapshot.
TestNodeInit ==
    /\ this_state \in [Peers -> FsStates]
    /\ other_state = [p \in Peers |-> this_state[Other(p)]]
    /\ conflicts = [p \in Peers |-> <<>>]
    /\ mstage = [p \in Peers |-> "t_new"]
    /\ mstart = this_state
    /\ mdiff = [p \in Peers |-> EmptyMap]
    /\ maccepted = [p \in Peers |-> EmptyMap]
    /\ content_store = [p \in Peers |-> JournaledStoreOf(this_state[p])]
    /\ input = [p \in Peers |-> <<>>]
    /\ pc = [p \in Peers |-> "off"]
    /\ node_init = [p \in Peers |-> <<>>]
    /\ disk = [p \in Peers |-> EmptyMap]
    /\ watch_rx = [p \in Peers |-> {}]
    /\ IdleScen /\ IdleAlg

\* let msg = node.messages_for_other(&mut cs); the message goes to the peer.
TestMessagesForOther(p) ==
    /\ mstage[p] = "t_new"
    /\ LET r == Node_messages_for_other(NodeOf(p), content_store[p])
       IN /\ SetNode(p, r.node)
          /\ content_store' = [content_store EXCEPT ![p] = r.store]
          /\ input' = Sent(input, p, Some(r.message))
    /\ mstage' = [mstage EXCEPT ![p] = "t_msg"]
    /\ UNCHANGED <<pc, node_init, disk, watch_rx, scenVars, mstart, mdiff, maccepted, alg>>

\* let diff1 = node1.changes_for_other();
TestChangesForOther ==
    /\ mstage[1] \in {"t_new", "t_msg"}
    /\ mdiff' = [mdiff EXCEPT ![1] = Node_changes_for_other(NodeOf(1))]
    /\ mstage' = [mstage EXCEPT ![1] = "t_diffed"]
    /\ UNCHANGED <<nodeVars, envVars, scenVars, mstart, maccepted, alg>>

\* node2.apply_changes_from_other_mem(&diff1);
TestApply ==
    /\ mstage[1] = "t_diffed"
    /\ mstage[2] \in {"t_new", "t_msg"}
    /\ LET r == Node_apply_changes_from_other_mem(NodeOf(2), mdiff[1])
       IN /\ SetNode(2, r.node)
          /\ maccepted' = [maccepted EXCEPT ![2] = r.accepted_diff]
    /\ mstage' = [mstage EXCEPT ![2] = "t_applied"]
    /\ UNCHANGED <<envVars, scenVars, mstart, mdiff, alg>>

\* node1.changes_acked_by_other(&diff1);
TestAcked ==
    /\ mstage[1] = "t_diffed"
    /\ mstage[2] = "t_applied"
    /\ SetNode(1, Node_changes_acked_by_other(NodeOf(1), mdiff[1]))
    /\ mstage' = [mstage EXCEPT ![1] = "t_acked"]
    /\ UNCHANGED <<envVars, scenVars, mstart, mdiff, maccepted, alg>>

TestNodeNext ==
    \/ \E p \in Peers : TestMessagesForOther(p)
    \/ TestChangesForOther
    \/ TestApply
    \/ TestAcked
TestNodeSpec == TestNodeInit /\ [][TestNodeNext]_vars

\* C13: when the two snapshots differ and each peer view is the other's
\* snapshot, after B applied A's changes_for_other() and A was acknowledged
\* that diff, neither Node has conflicts and A.this_state, A.other_state,
\* B.this_state and B.other_state all equal A's original snapshot.
C13_OneWayConverges ==
    (mstage[1] = "t_acked" /\ mstart[1] # mstart[2]) =>
        /\ \A p \in Peers : ~Node_has_conflicts(NodeOf(p))
        /\ \A p \in Peers : this_state[p] = mstart[1] /\ other_state[p] = mstart[1]
\* The exchange is done and A's diff had a Created, a Removed or Modified entry.
C13_Witness ==
    /\ mstage[1] = "t_acked"
    /\ mstart[1] # mstart[2]
    /\ \E f \in DOMAIN mdiff[1], g \in DOMAIN mdiff[1] :
          mdiff[1][f].kind = "Created" /\ mdiff[1][g].kind # "Created"

\* C20: messages_for_other produces a Changes message only when
\* diff(peer view, snapshot) is not empty, and leaves the peer view as it was.
C20_NoEmptyChanges ==
    \A p \in Peers :
        /\ \A i \in 1..Len(input[p]) :
              input[p][i].kind = "Changes" => ~FsStateDiff_is_empty(input[p][i].diff)
        /\ mstage[p] = "t_msg" => other_state[p] = mstart[Other(p)]
\* messages_for_other was called on a Node whose diff is not empty.
C20_Witness ==
    \E p \in Peers :
        /\ mstage[p] = "t_msg"
        /\ input[Other(p)] # <<>>
        /\ ~FsStateDiff_is_empty(input[Other(p)][1].diff)

\* ------------------------------------------------ one message, one handler

\* Snapshots and diffs over the contents a disk can hold.
DiskMetadatas == {FileMetadata(Hash(b)) : b \in DiskBytes}
DiskStates == Maps(Paths, DiskMetadatas)
DiskChanges ==
    {Removed(m) : m \in DiskMetadatas} \cup {Created(m) : m \in DiskMetadatas}
    \cup {Modified(o, n) : o \in DiskMetadatas, n \in DiskMetadatas}
DiskDiffs == Maps(Paths, DiskChanges)
\* Peer views that know of the first path at most.
PeerViews == {s \in DiskStates : DOMAIN s \subseteq {1}}
\* The blobs a sender packs with a diff: the content of every Created or
\* Modified entry.
BlobsFor(diff) ==
    SortedKeys({ContentOf(InstalledMeta(diff[f]).content_hash) :
                    f \in {g \in DOMAIN diff : diff[g].kind # "Removed"}})

\* A Node with its disk and store, and one message for handle_message_disk:
\* a Changes with its blobs, met by any snapshot, disk and conflict log, or a
\* ChangesResponse, met by any peer view.
HandleInit ==
    /\ alg \in
         {[pc |-> "hm_in",
           node |-> [this_state |-> s, other_state |-> o, conflicts |-> log],
           disk |-> d, store |-> StoreOf(s),
           message |-> Changes(BlobsFor(diff), diff)] :
              s \in DiskStates, o \in PeerViews, log \in {<<>>, <<2>>},
              d \in Maps(Paths, DiskBytes), diff \in DiskDiffs}
         \cup
         {[pc |-> "hm_in",
           node |-> [this_state |-> s, other_state |-> o, conflicts |-> log],
           disk |-> DiskOf(s), store |-> StoreOf(s),
           message |-> ChangesResponse(diff)] :
              s \in PeerViews, o \in DiskStates, log \in {<<>>, <<2>>},
              diff \in DiskDiffs}
    /\ IdleNode /\ IdleEnv /\ IdleScen /\ IdleMem

\* handle_message_disk on the message; before is the state it met, after what
\* it returned and left.
Handled ==
    [pc |-> "hm_out", before |-> alg,
     after |-> Node_handle_message_disk(alg.node, alg.message, alg.disk, alg.store)]

HandleChanges ==
    /\ alg.pc = "hm_in" /\ alg.message.kind = "Changes"
    /\ alg' = Handled
    /\ UNCHANGED <<nodeVars, envVars, scenVars, memVars>>

HandleChangesResponse ==
    /\ alg.pc = "hm_in" /\ alg.message.kind = "ChangesResponse"
    /\ alg' = Handled
    /\ UNCHANGED <<nodeVars, envVars, scenVars, memVars>>

HandleNext == HandleChanges \/ HandleChangesResponse
HandleSpec == HandleInit /\ [][HandleNext]_vars

\* The paths of a diff whose change conflicts with the file the disk holds.
ConflictsOnDisk(diff, files_on_disk) ==
    {f \in DOMAIN diff :
        FileChange_conflicts(diff[f],
            IF f \in DOMAIN files_on_disk
            THEN Some(FileMetadata(Hash(files_on_disk[f]))) ELSE None)}

\* C21: handle_message_disk answers an inbound Changes with one
\* ChangesResponse whose accepted diff is the received diff, with the same
\* changes, on exactly the paths that did not conflict on disk, and appends
\* every conflicting path to the conflict log: accepted and newly logged paths
\* partition the paths of the received diff.
C21_AcceptedAndLoggedPartition ==
    (alg.pc = "hm_out" /\ alg.before.message.kind = "Changes") =>
        LET diff == alg.before.message.diff
            confl == ConflictsOnDisk(diff, alg.before.disk)
        IN /\ alg.after.ok
           /\ alg.after.response =
                  Some(ChangesResponse([f \in DOMAIN diff \ confl |-> diff[f]]))
           /\ alg.after.node.conflicts =
                  alg.before.node.conflicts \o SortedKeys(confl)
\* A Changes on two paths met a log that was not empty: one path conflicted
\* and was logged, the other was accepted.
C21_Witness ==
    /\ alg.pc = "hm_out" /\ alg.before.message.kind = "Changes"
    /\ DOMAIN alg.before.message.diff = Paths
    /\ alg.before.node.conflicts = <<2>>
    /\ alg.after.node.conflicts = <<2, 1>>
    /\ DOMAIN alg.after.response[1].accepted_diff = {2}

\* C22: handling an inbound Changes leaves the receiver's peer view as it was.
C22_ChangesKeepsPeerView ==
    (alg.pc = "hm_out" /\ alg.before.message.kind = "Changes") =>
        alg.after.node.other_state = alg.before.node.other_state
\* A Changes was accepted: snapshot and disk moved, and the peer view, which
\* the diff would have changed, was not empty.
C22_Witness ==
    /\ alg.pc = "hm_out" /\ alg.before.message.kind = "Changes"
    /\ alg.after.node.this_state # alg.before.node.this_state
    /\ alg.after.disk # alg.before.disk
    /\ alg.before.node.other_state # EmptyMap
    /\ FsState_apply_diff(alg.before.node.other_state, alg.before.message.diff).files
           # alg.before.node.other_state

\* C23: handling an inbound ChangesResponse applies the accepted diff to the
\* peer view and nothing else: no message is returned, no file is touched, and
\* snapshot, disk, store and conflict log are as before.
C23_ResponseOnlyMovesPeerView ==
    (alg.pc = "hm_out" /\ alg.before.message.kind = "ChangesResponse") =>
        /\ alg.after.response = None
        /\ alg.after.touched = {}
        /\ alg.after.ok
        /\ alg.after.node.other_state =
               FsState_apply_diff(alg.before.node.other_state,
                                  alg.before.message.accepted_diff).files
        /\ alg.after.node.this_state = alg.before.node.this_state
        /\ alg.after.node.conflicts = alg.before.node.conflicts
        /\ alg.after.disk = alg.before.disk
        /\ alg.after.store = alg.before.store
\* A ChangesResponse moved the peer view of a node whose snapshot and log were
\* not empty.
C23_Witness ==
    /\ alg.pc = "hm_out" /\ alg.before.message.kind = "ChangesResponse"
    /\ alg.after.node.other_state # alg.before.node.other_state
    /\ alg.before.node.this_state # EmptyMap
    /\ alg.before.node.conflicts # <<>>

\* ------------------------------------------------ one batch, one refresh

\* The batches of paths a refresh is called with.
RefreshBatches == {<<f>> : f \in Paths} \cup {<<f, g>> : f \in Paths, g \in Paths}

\* A Node, a disk that may hold something other than a regular file at a
\* path, and one batch for Node::refresh_paths.
RefreshInit ==
    /\ alg \in
         {[pc |-> "rf_in",
           node |-> [this_state |-> s, other_state |-> o, conflicts |-> <<>>],
           disk |-> d, store |-> StoreOf(s), paths |-> batch] :
              s \in DiskStates, o \in PeerViews,
              d \in Maps(Paths, DiskBytes \cup {OtherFileType}),
              batch \in RefreshBatches}
    /\ IdleNode /\ IdleEnv /\ IdleScen /\ IdleMem

RefreshBatch ==
    /\ alg.pc = "rf_in"
    /\ alg' = [pc |-> "rf_out", before |-> alg,
               after |-> Node_refresh_paths(alg.node, alg.disk, alg.paths, alg.store)]
    /\ UNCHANGED <<nodeVars, envVars, scenVars, memVars>>

RefreshNext == RefreshBatch
RefreshSpec == RefreshInit /\ [][RefreshNext]_vars

ApplyInit ==
    /\ alg \in
         {[pc |-> "ap_in", self |-> s, disk |-> d, diff |-> diff,
           store |-> add_all(StoreOf(s), BlobsFor(diff))] :
              s \in DiskStates, d \in Maps(Paths, DiskBytes), diff \in DiskDiffs}
    /\ IdleNode /\ IdleEnv /\ IdleScen /\ IdleMem

\* self.apply_diff(&diff)
ApplyMem ==
    /\ alg.pc = "ap_in"
    /\ alg' = [pc |-> "ap_mem_out", before |-> alg,
               after |-> FsState_apply_diff(alg.self, alg.diff)]
    /\ UNCHANGED <<nodeVars, envVars, scenVars, memVars>>

\* self.apply_diff_to_disk(&diff, root, content_store)
ApplyDisk ==
    /\ alg.pc = "ap_in"
    /\ alg' = [pc |-> "ap_disk_out", before |-> alg,
               after |-> FsState_apply_diff_to_disk(alg.self, alg.diff, alg.disk,
                                                    alg.store)]
    /\ UNCHANGED <<nodeVars, envVars, scenVars, memVars>>

ApplyNext == ApplyMem \/ ApplyDisk
ApplySpec == ApplyInit /\ [][ApplyNext]_vars

\* C25: apply_diff leaves the snapshot entry of every path whose change
\* conflicts with the snapshot as it was; apply_diff_to_disk leaves the file
\* and the snapshot entry of every path whose change conflicts with the disk
\* as they were, and for every other path of the diff leaves the snapshot
\* entry and the file at the change's target: absent for Removed, the new
\* metadata and its content for Created and Modified.
C25_ConflictsUntouchedOthersApplied ==
    /\ alg.pc = "ap_mem_out" =>
          \A f \in DOMAIN alg.before.diff :
              FileChange_conflicts(alg.before.diff[f], MapGet(alg.before.self, f)) =>
                  MapGet(alg.after.files, f) = MapGet(alg.before.self, f)
    /\ alg.pc = "ap_disk_out" =>
          /\ alg.after.ok
          /\ \A f \in DOMAIN alg.before.diff :
                LET change == alg.before.diff[f]
                IN IF f \in ConflictsOnDisk(alg.before.diff, alg.before.disk)
                   THEN /\ MapGet(alg.after.disk, f) = MapGet(alg.before.disk, f)
                        /\ MapGet(alg.after.files, f) = MapGet(alg.before.self, f)
                   ELSE IF change.kind = "Removed"
                   THEN /\ MapGet(alg.after.disk, f) = None
                        /\ MapGet(alg.after.files, f) = None
                   ELSE /\ MapGet(alg.after.disk, f) =
                               Some(ContentOf(InstalledMeta(change).content_hash))
                        /\ MapGet(alg.after.files, f) = Some(InstalledMeta(change))
\* apply_diff_to_disk met a diff on two paths: one conflicted with a file the
\* snapshot did not know, the other was written over a different file.
C25_Witness ==
    /\ alg.pc = "ap_disk_out"
    /\ DOMAIN alg.before.diff = Paths
    /\ \E f, g \in Paths :
          /\ f \in SeqToSet(alg.after.conflicts)
          /\ f \in DOMAIN alg.after.disk /\ f \notin DOMAIN alg.before.self
          /\ g \notin SeqToSet(alg.after.conflicts)
          /\ alg.before.diff[g].kind = "Modified"
          /\ MapGet(alg.after.disk, g) # MapGet(alg.before.disk, g)

\* ------------------------------------------------------ debounce_watcher

\* The paths the watcher reports. One of them matches the ignore regex and one
\* is not valid UTF-8.
WatchPaths == 1 .. NumWatchPaths
IgnoredPaths == {3}
NonUtf8Paths == {4}
\* The batches one watcher callback sends.
WatchBatches == {{x} : x \in WatchPaths} \cup {{1, 2}}

\* Path::to_str
to_str(path) == IF path \in NonUtf8Paths THEN None ELSE Some(path)
\* Regex::is_match
ignore_is_match(x) == x \in IgnoredPaths

\* A filter that lets ignored paths through.
debounce_filter_KeepIgnored(paths) == SortedKeys({x \in paths : to_str(x) # None})

\* paths.into_iter().filter(|x| x.to_str().map_or(false, |x| !ignore.is_match(x)))
\* .collect(): the BTreeSet in order, without the requests the filter drops.
debounce_filter(paths) ==
    SortedKeys({x \in paths : to_str(x) # None /\ ~ignore_is_match(to_str(x)[1])})

\* The watcher channel rx with its sender (open), and one thread that receives
\* a batch and calls debounce_watcher on it, again and again. gap and total
\* count the time since the last receive and since the call began. sent is what
\* the watcher sent that no result has answered yet, window is sent as it was
\* when the call returned, and dup tells that the call received a request it
\* already had.
DebInit ==
    /\ alg = [pc |-> "deb_wait", rx |-> <<>>, open |-> TRUE, paths |-> {},
              sent |-> {}, window |-> {}, dup |-> FALSE, gap |-> 0, total |-> 0,
              result |-> <<>>,
              calls |-> 0, events |-> 0]
    /\ IdleNode /\ IdleEnv /\ IdleScen /\ IdleMem

\* watch_tx.send(paths) in the watcher callback
WatchEvent(batch) ==
    /\ alg.pc \in {"deb_wait", "deb_loop", "deb_done"}
    /\ alg.open /\ alg.events < MaxWatchEvents
    /\ alg' = [alg EXCEPT !.rx = Append(@, batch), !.sent = @ \cup batch,
                          !.events = @ + 1]
    /\ UNCHANGED <<nodeVars, envVars, scenVars, memVars>>

\* The watcher, and with it the sender, is dropped.
WatchClose ==
    /\ alg.pc \in {"deb_wait", "deb_loop", "deb_done"}
    /\ alg.open
    /\ alg' = [alg EXCEPT !.open = FALSE]
    /\ UNCHANGED <<nodeVars, envVars, scenVars, memVars>>

\* rx.recv() and the entry of debounce_watcher: paths.extend(path_list).
DebFirst ==
    /\ alg.pc = "deb_wait"
    /\ alg.rx # <<>> \/ ~alg.open
    /\ alg' = IF alg.rx = <<>>
              THEN [alg EXCEPT !.pc = "deb_closed"]
              ELSE [alg EXCEPT !.pc = "deb_loop", !.rx = Tail(@), !.paths = Head(alg.rx),
                               !.dup = FALSE,
                               !.gap = 0, !.total = 0]
    /\ UNCHANGED <<nodeVars, envVars, scenVars, memVars>>

\* Time passes while the call waits in recv_deadline.
DebTick ==
    /\ alg.pc = "deb_loop"
    /\ alg.gap < QuietTicks /\ alg.total < WindowTicks
    /\ alg' = [alg EXCEPT !.gap = @ + 1, !.total = @ + 1]
    /\ UNCHANGED <<nodeVars, envVars, scenVars, memVars>>

\* Ok(path_list) => paths.extend(path_list): a batch that is there is taken,
\* whatever the deadline.
DebRecv ==
    /\ alg.pc = "deb_loop"
    /\ alg.rx # <<>>
    /\ alg' = [alg EXCEPT !.rx = Tail(@), !.paths = @ \cup Head(alg.rx),
                          !.dup = @ \/ (Head(alg.rx) \cap alg.paths # {}),
                          !.gap = 0]
    /\ UNCHANGED <<nodeVars, envVars, scenVars, memVars>>

\* Err(Timeout) => break; Err(Disconnected) => Err(RecvError) when paths is
\* empty, else break; then the filtered set is returned.
DebReturn ==
    /\ alg.pc = "deb_loop"
    /\ alg.rx = <<>>
    /\ ~alg.open \/ alg.gap = QuietTicks \/ alg.total = WindowTicks
    /\ alg' = IF ~alg.open /\ alg.paths = {}
              THEN [alg EXCEPT !.pc = "deb_closed"]
              ELSE [alg EXCEPT !.pc = "deb_done", !.result = debounce_filter(alg.paths),
                               !.window = alg.sent, !.sent = {}, !.calls = @ + 1]
    /\ UNCHANGED <<nodeVars, envVars, scenVars, memVars>>

\* The caller handles the result as one Event::Refresh and receives again.
DebHandled ==
    /\ alg.pc = "deb_done"
    /\ alg' = [alg EXCEPT !.pc = "deb_wait", !.paths = {}, !.window = {}, !.dup = FALSE,
                          !.result = <<>>]
    /\ UNCHANGED <<nodeVars, envVars, scenVars, memVars>>

DebNext ==
    \/ \E batch \in WatchBatches : WatchEvent(batch)
    \/ WatchClose
    \/ DebFirst
    \/ DebTick
    \/ DebRecv
    \/ DebReturn
    \/ DebHandled
DebounceSpec == DebInit /\ [][DebNext]_vars

IoInit ==
    /\ alg = [pc |-> "io_loop", reader |-> "reading", eof |-> FALSE, inq |-> 0,
              outq |-> <<>>, writer |-> "writing", written |-> <<>>, produced |-> 0,
              result |-> "none", incoming |-> 0, refreshes |-> 0]
    /\ IdleNode /\ IdleEnv /\ IdleScen /\ IdleMem

\* The process is still there.
IoAlive == alg.pc \in {"io_loop", "io_join_read", "io_returned"}

\* read thread: decode_from_reader returns a message and input_tx.send passes
\* it on, or fails because run_node has dropped the receiver.
ReadMessage ==
    /\ IoAlive /\ alg.reader = "reading" /\ alg.incoming < MaxIncoming
    /\ alg' = IF alg.pc = "io_loop"
              THEN [alg EXCEPT !.inq = @ + 1, !.incoming = @ + 1]
              ELSE [alg EXCEPT !.reader = "Err", !.incoming = @ + 1]
    /\ UNCHANGED <<nodeVars, envVars, scenVars, memVars>>

\* read thread: the transport is at EOF, decode_from_reader fails and `?`
\* ends the thread with the error; input_tx is dropped.
ReadEof ==
    /\ IoAlive /\ alg.reader = "reading"
    /\ alg' = [alg EXCEPT !.reader = "Err", !.eof = TRUE]
    /\ UNCHANGED <<nodeVars, envVars, scenVars, memVars>>

\* output.send(AnyNodeMessage::Regular(response)) when there is a response
IoSend(a, response) ==
    IF response
    THEN [a EXCEPT !.produced = @ + 1, !.outq = Append(@, a.produced + 1)]
    ELSE a

\* run_node: recv(input) -> Ok(msg), handle_message_disk, send the response.
LoopMessage(response) ==
    /\ alg.pc = "io_loop" /\ alg.inq > 0
    /\ alg' = IoSend([alg EXCEPT !.inq = @ - 1], response)
    /\ UNCHANGED <<nodeVars, envVars, scenVars, memVars>>

\* run_node: recv(watch_rx), refresh_requests, send the Changes if any.
LoopRefresh(response) ==
    /\ alg.pc = "io_loop" /\ alg.refreshes < MaxRefreshes
    /\ alg' = IoSend([alg EXCEPT !.refreshes = @ + 1], response)
    /\ UNCHANGED <<nodeVars, envVars, scenVars, memVars>>

\* run_node: recv(input) fails, the channel being empty and its sender
\* dropped: break, anyhow::Ok(()). output is dropped with the return.
LoopBreak ==
    /\ alg.pc = "io_loop" /\ alg.inq = 0 /\ alg.reader = "Err"
    /\ alg' = [alg EXCEPT !.pc = "io_join_read"]
    /\ UNCHANGED <<nodeVars, envVars, scenVars, memVars>>

\* write thread: output_rx.recv() gives a message, which is encoded and
\* flushed.
WriteMessage ==
    /\ IoAlive /\ alg.writer = "writing" /\ alg.outq # <<>>
    /\ alg' = [alg EXCEPT !.outq = Tail(@), !.written = Append(@, Head(alg.outq))]
    /\ UNCHANGED <<nodeVars, envVars, scenVars, memVars>>

\* write thread: output_rx.recv() fails, the channel being empty and its
\* sender dropped: anyhow::Ok(()).
WriteDone ==
    /\ IoAlive /\ alg.writer = "writing" /\ alg.outq = <<>> /\ alg.pc # "io_loop"
    /\ alg' = [alg EXCEPT !.writer = "Ok"]
    /\ UNCHANGED <<nodeVars, envVars, scenVars, memVars>>

\* read_thread.join().expect(..).context("read thread")?: the read thread
\* has ended, with the only result it has, and `?` returns that error. The
\* join of the write thread and `result` are not reached.
JoinRead ==
    /\ alg.pc = "io_join_read" /\ alg.reader = "Err"
    /\ alg' = [alg EXCEPT !.pc = "io_returned", !.result = "Err"]
    /\ UNCHANGED <<nodeVars, envVars, scenVars, memVars>>

\* main returns what run_node_with_io returned and the process ends, the
\* write thread with it.
ProcessExit ==
    /\ alg.pc = "io_returned"
    /\ alg' = [alg EXCEPT !.pc = "io_exited"]
    /\ UNCHANGED <<nodeVars, envVars, scenVars, memVars>>

IoNext ==
    \/ ReadMessage
    \/ ReadEof
    \/ \E response \in BOOLEAN : LoopMessage(response)
    \/ \E response \in BOOLEAN : LoopRefresh(response)
    \/ LoopBreak
    \/ WriteMessage
    \/ WriteDone
    \/ JoinRead
    \/ ProcessExit
IoSpec == IoInit /\ [][IoNext]_vars

\* C18: when the transport reaches EOF while the peer is Running, the peer
\* shuts down cleanly: once the process has ended, every message run_node
\* produced has been written and run_node_with_io has returned success.
C18_CleanEofShutdown ==
    (alg.pc = "io_exited" /\ alg.eof) =>
        /\ alg.written = [i \in 1..alg.produced |-> i]
        /\ alg.result = "Ok"
\* The transport reached EOF, the loop left and the process ended after the
\* write thread had written every message and finished.
C18_Witness ==
    /\ alg.pc = "io_exited" /\ alg.eof
    /\ alg.produced > 0
    /\ alg.written = [i \in 1..alg.produced |-> i]
    /\ alg.writer = "Ok"

\* ------------------------------------------------------ NodeInit, handshake

\* NodeInit::from_disk(root, content_store, override_other), as run_node calls
\* it: the local snapshot is scanned from disk and its contents enter the store.
\* [node_init, store]
NodeInit_from_disk(files_on_disk, cs, override_other) ==
    LET r == FsState_from_disk(files_on_disk, cs)
    IN [node_init |-> [state |-> "Announcing", override_other |-> override_other,
                       this_state |-> r.files, other_state |-> None],
        store |-> r.store]

\* NodeInit::announce: Announce { snapshot }, the peer's first message.
NodeInit_announce(ni) == Announce(ni.this_state)

\* The contents the authoritative peer holds that the announced snapshot of the
\* subordinate does not reference.
OverrideBlobs(cs, peer_snap) ==
    LET referenced == {peer_snap[f].content_hash : f \in DOMAIN peer_snap}
    IN SortedKeys({cs.contents[h] : h \in (DOMAIN cs.contents) \ referenced})

\* NodeInit::handle_init_message, by the table of spec section 4.3.
\* [ok, node_init, node |-> Option<Node>, response |-> Option<NodeInitMessage>,
\*  disk, store, touched]
NodeInit_handle_init_message(ni, msg, files_on_disk, cs) ==
    LET failed == [ok |-> FALSE, node_init |-> ni, node |-> None, response |-> None,
                   disk |-> files_on_disk, store |-> cs, touched |-> {}]
    IN CASE ni.state = "AwaitingAnnounce" /\ msg.kind = "Announce" ->
                IF ni.override_other
                THEN [ok |-> TRUE,
                      node_init |-> [ni EXCEPT !.state = "AwaitingAck",
                                               !.other_state = Some(msg.state)],
                      node |-> None,
                      response |-> Some(Override(OverrideBlobs(cs, msg.state))),
                      disk |-> files_on_disk, store |-> cs, touched |-> {}]
                ELSE [ok |-> TRUE,
                      node_init |-> [ni EXCEPT !.state = "AwaitingOverride",
                                               !.other_state = Some(msg.state)],
                      node |-> None, response |-> None,
                      disk |-> files_on_disk, store |-> cs, touched |-> {}]
         [] ni.state = "AwaitingOverride" /\ msg.kind = "Override" ->
                LET peer_snap == ni.other_state[1]
                IN With(FsState_apply_diff_to_disk(
                            ni.this_state, FsState_diff(ni.this_state, peer_snap),
                            files_on_disk, add_all(cs, msg.content)),
                        LAMBDA r :
                            IF ~r.ok THEN [failed EXCEPT !.disk = r.disk, !.store = r.store]
                            ELSE [ok |-> TRUE,
                                  node_init |-> [ni EXCEPT !.state = "Running",
                                                           !.this_state = r.files],
                                  node |-> Some(Node_new(r.files, peer_snap)),
                                  response |-> Some(OverrideAck),
                                  disk |-> r.disk, store |-> r.store,
                                  touched |-> r.touched])
         [] ni.state = "AwaitingAck" /\ msg.kind = "OverrideAck" ->
                [ok |-> TRUE, node_init |-> [ni EXCEPT !.state = "Running"],
                 node |-> Some(Node_new(ni.this_state, ni.other_state[1])),
                 response |-> None,
                 disk |-> files_on_disk, store |-> cs, touched |-> {}]
         [] OTHER -> failed

\* ------------------------------------------------------- run_node, init

\* Two peers starting up on arbitrary trees; peer 1 is the authoritative one
\* (sync_command runs the source with override_other = true).
StartInit ==
    /\ pc = [p \in Peers |-> "start"]
    /\ node_init = [p \in Peers |->
                       [state |-> "Announcing", override_other |-> (p = 1),
                        this_state |-> EmptyMap, other_state |-> None]]
    /\ this_state = [p \in Peers |-> EmptyMap]
    /\ other_state = [p \in Peers |-> EmptyMap]
    /\ conflicts = [p \in Peers |-> <<>>]
    /\ disk \in [Peers -> Maps(Paths, DiskBytes)]
    /\ content_store = [p \in Peers |-> ContentStore_default]
    /\ watch_rx = [p \in Peers |-> {}]
    /\ input = [p \in Peers |-> <<>>]
    /\ base = EmptyMap
    /\ edited = [p \in Peers |-> {}]
    /\ edits = MaxInitEdits
    /\ hs_log = [p \in Peers |-> <<>>]
    /\ IdleMem /\ IdleAlg

Logged(log, p, dir, response) ==
    IF response = None THEN log
    ELSE [log EXCEPT ![p] = Append(@, <<dir, response[1].kind>>)]

\* run_node up to its first send: the scan, then Announce.
RunNodeStart(p) ==
    /\ pc[p] = "start"
    /\ \E r \in {NodeInit_from_disk(disk[p], content_store[p],
                                     node_init[p].override_other)} :
       LET msg == NodeInit_announce(r.node_init)
       IN /\ node_init' = [node_init EXCEPT ![p] = [r.node_init EXCEPT !.state = "AwaitingAnnounce"]]
          /\ content_store' = [content_store EXCEPT ![p] = r.store]
          /\ input' = Sent(input, p, Some(msg))
          /\ hs_log' = Logged(hs_log, p, "send", Some(msg))
    /\ pc' = [pc EXCEPT ![p] = "init"]
    /\ UNCHANGED <<nodeVars, disk, watch_rx, base, edited, edits, memVars, alg>>

\* An init loop that drops a message that is no Init message and goes on.
InitRecv_SkipsRegular(p) ==
    /\ pc[p] = "init"
    /\ input[p] # <<>>
    /\ LET msg == Head(input[p])
           rest == [input EXCEPT ![p] = Tail(@)]
           got == Logged(hs_log, p, "recv", Some(msg))
       IN IF ~IsInit(msg)
          THEN /\ pc' = pc
               /\ input' = rest
               /\ hs_log' = got
               /\ UNCHANGED <<nodeVars, node_init, disk, content_store, watch_rx>>
          ELSE \E r \in {NodeInit_handle_init_message(node_init[p], msg, disk[p],
                                                       content_store[p])} :
                  /\ node_init' = [node_init EXCEPT ![p] = r.node_init]
                  /\ disk' = [disk EXCEPT ![p] = r.disk]
                  /\ content_store' = [content_store EXCEPT ![p] = r.store]
                  /\ watch_rx' = [watch_rx EXCEPT ![p] = @ \cup r.touched]
                  /\ input' = Sent(rest, p, r.response)
                  /\ hs_log' = Logged(got, p, "send", r.response)
                  /\ IF r.node # None THEN SetNode(p, r.node[1]) ELSE UNCHANGED nodeVars
                  /\ pc' = [pc EXCEPT ![p] = IF ~r.ok THEN "err_init"
                                             ELSE IF r.node # None THEN "running"
                                             ELSE "init"]
    /\ UNCHANGED <<base, edited, edits, memVars, alg>>

\* An init loop that goes on after handle_init_message has failed.
InitRecv_IgnoresFailure(p) ==
    /\ pc[p] = "init"
    /\ input[p] # <<>>
    /\ LET msg == Head(input[p])
           rest == [input EXCEPT ![p] = Tail(@)]
           got == Logged(hs_log, p, "recv", Some(msg))
       IN IF ~IsInit(msg)
          THEN /\ pc' = [pc EXCEPT ![p] = "err_expected_init"]
               /\ input' = rest
               /\ hs_log' = got
               /\ UNCHANGED <<nodeVars, node_init, disk, content_store, watch_rx>>
          ELSE \E r \in {NodeInit_handle_init_message(node_init[p], msg, disk[p],
                                                       content_store[p])} :
                  /\ node_init' = [node_init EXCEPT ![p] = r.node_init]
                  /\ disk' = [disk EXCEPT ![p] = r.disk]
                  /\ content_store' = [content_store EXCEPT ![p] = r.store]
                  /\ watch_rx' = [watch_rx EXCEPT ![p] = @ \cup r.touched]
                  /\ input' = Sent(rest, p, r.response)
                  /\ hs_log' = Logged(got, p, "send", r.response)
                  /\ IF r.node # None THEN SetNode(p, r.node[1]) ELSE UNCHANGED nodeVars
                  /\ pc' = [pc EXCEPT ![p] = IF r.node # None THEN "running"
                                             ELSE "init"]
    /\ UNCHANGED <<base, edited, edits, memVars, alg>>

\* One turn of the init loop: receive, handle, send the response, and leave
\* the loop with the Node once there is one.
InitRecv(p) ==
    /\ pc[p] = "init"
    /\ input[p] # <<>>
    /\ LET msg == Head(input[p])
           rest == [input EXCEPT ![p] = Tail(@)]
           got == Logged(hs_log, p, "recv", Some(msg))
       IN IF ~IsInit(msg)
          THEN /\ pc' = [pc EXCEPT ![p] = "err_expected_init"]
               /\ input' = rest
               /\ hs_log' = got
               /\ UNCHANGED <<nodeVars, node_init, disk, content_store, watch_rx>>
          ELSE \E r \in {NodeInit_handle_init_message(node_init[p], msg, disk[p],
                                                       content_store[p])} :
                  /\ node_init' = [node_init EXCEPT ![p] = r.node_init]
                  /\ disk' = [disk EXCEPT ![p] = r.disk]
                  /\ content_store' = [content_store EXCEPT ![p] = r.store]
                  /\ watch_rx' = [watch_rx EXCEPT ![p] = @ \cup r.touched]
                  /\ input' = Sent(rest, p, r.response)
                  /\ hs_log' = Logged(got, p, "send", r.response)
                  /\ IF r.node # None THEN SetNode(p, r.node[1]) ELSE UNCHANGED nodeVars
                  /\ pc' = [pc EXCEPT ![p] = IF ~r.ok THEN "err_init"
                                             ELSE IF r.node # None THEN "running"
                                             ELSE "init"]
    /\ UNCHANGED <<base, edited, edits, memVars, alg>>

InitNext ==
    \E p \in Peers :
        \/ RunNodeStart(p)
        \/ InitRecv(p)
        \/ \E f \in Paths, content \in DiskBytes : UserWrite(p, f, content)
        \/ \E f \in Paths : UserRemove(p, f)
        \/ RunRecv(p)
        \/ \E batch \in SUBSET Paths : RunRefresh(p, batch)
InitSpec == StartInit /\ [][InitNext]_vars
\* The threads running the two init loops are scheduled: an init step that
\* stays possible is eventually taken.
InitStep == \E p \in Peers : RunNodeStart(p) \/ InitRecv(p)
FairInitSpec == InitSpec /\ WF_vars(InitStep)

BothRunning == \A p \in Peers : pc[p] = "running"

\* C8: once both peers are Running, each peer's peer view equals its own
\* snapshot, and the subordinate's snapshot is the one the authoritative peer
\* announced, whatever the two initial snapshots were.
C8_SettledAfterHandshake ==
    (BothRunning /\ edits = MaxInitEdits) =>
        /\ \A p \in Peers : Node_is_settle(NodeOf(p))
        /\ this_state[2] = node_init[1].this_state

NoProtocolError == \A p \in Peers : pc[p] \in {"start", "init", "running"}
Before(log, i, entry) == \E j \in 1..(i - 1) : log[j] = entry
HandshakeOrder ==
    \A p \in Peers :
        /\ hs_log[p] # <<>> => hs_log[p][1] = <<"send", "Announce">>
        /\ \A i \in 1..Len(hs_log[p]) :
              /\ hs_log[p][i] = <<"send", "Override">> =>
                    node_init[p].override_other
                    /\ Before(hs_log[p], i, <<"recv", "Announce">>)
              /\ hs_log[p][i] = <<"send", "OverrideAck">> =>
                    ~node_init[p].override_other
                    /\ Before(hs_log[p], i, <<"recv", "Override">>)
              /\ hs_log[p][i][1] = "recv" =>
                    hs_log[p][i][2] \notin {"Changes", "ChangesResponse"}

\* C9: with peer 1 authoritative, peer 2 not, and FIFO channels, every
\* interleaving brings both peers to Running with no protocol error on the
\* way; a peer's first outbound message is Announce, Override is sent only by
\* the authoritative peer after it received Announce, OverrideAck only by the
\* subordinate after it received Override, and no peer takes a Regular message
\* off its channel while still in the init loop.
C9_HandshakeCompletes ==
    /\ [](NoProtocolError /\ HandshakeOrder)
    /\ <>BothRunning
C9_Witness ==
    /\ BothRunning
    /\ hs_log[1] = << <<"send", "Announce">>, <<"recv", "Announce">>,
                      <<"send", "Override">>, <<"recv", "OverrideAck">> >>
    /\ hs_log[2] = << <<"send", "Announce">>, <<"recv", "Announce">>,
                      <<"recv", "Override">>, <<"send", "OverrideAck">> >>
    /\ \E p \in Peers : input[p] # <<>> /\ IsRegular(Head(input[p]))

\* ------------------------------------------- run_node, faults of the set-up

\* The messages a faulty transport or peer may put into a channel.
StrayMessages ==
    {Changes(<<1>>, <<Created(FileMetadata(Hash(1)))>>), ChangesResponse(EmptyMap),
     Announce(EmptyMap), OverrideAck}

\* Two peers starting up on trees of at most one file with any choice of the
\* two override_other flags; nobody edits. alg counts the stray messages that may
\* still come.
FaultInit ==
    /\ pc = [p \in Peers |-> "start"]
    /\ \E flags \in [Peers -> BOOLEAN] :
          node_init = [p \in Peers |->
                          [state |-> "Announcing", override_other |-> flags[p],
                           this_state |-> EmptyMap, other_state |-> None]]
    /\ this_state = [p \in Peers |-> EmptyMap]
    /\ other_state = [p \in Peers |-> EmptyMap]
    /\ conflicts = [p \in Peers |-> <<>>]
    /\ disk \in [Peers -> Maps({1}, DiskBytes)]
    /\ content_store = [p \in Peers |-> ContentStore_default]
    /\ watch_rx = [p \in Peers |-> {}]
    /\ input = [p \in Peers |-> <<>>]
    /\ base = EmptyMap
    /\ edited = [p \in Peers |-> {}]
    /\ edits = 0
    /\ hs_log = [p \in Peers |-> <<>>]
    /\ IdleMem
    /\ alg = [pc |-> "stray", left |-> MaxStray]

\* A message that the other peer did not send arrives in p's input channel.
Stray(p, msg) ==
    /\ alg.left > 0
    /\ alg' = [alg EXCEPT !.left = @ - 1]
    /\ input' = [input EXCEPT ![p] = Append(@, msg)]
    /\ UNCHANGED <<nodeVars, pc, node_init, disk, content_store, watch_rx, scenVars,
                   memVars>>

FaultNext ==
    \E p \in Peers :
        \/ RunNodeStart(p)
        \/ InitRecv(p)
        \/ RunRecv(p)
        \/ \E batch \in SUBSET Paths : RunRefresh(p, batch)
        \/ \E msg \in StrayMessages : Stray(p, msg)
FaultSpec == FaultInit /\ [][FaultNext]_vars

\* Peer p stopped on a message of the wrong kind.
StoppedOnKind(p) == pc[p] \in {"err_expected_init", "err_expected_regular"}
\* The message next for p is of the wrong kind for where p is.
WrongKindNext(p) ==
    /\ input[p] # <<>>
    /\ \/ pc[p] = "init" /\ IsRegular(Head(input[p]))
       \/ pc[p] = "running" /\ IsInit(Head(input[p]))
\* This step leaves what peer p holds as it is.
PeerUntouched(p) ==
    /\ this_state'[p] = this_state[p]
    /\ other_state'[p] = other_state[p]
    /\ conflicts'[p] = conflicts[p]
    /\ disk'[p] = disk[p]
    /\ content_store'[p] = content_store[p]
    /\ node_init'[p] = node_init[p]

\* C26: a peer that takes a Regular message off its channel while in the init
\* loop, or an Init message while Running, stops with an error in that step,
\* which changes nothing of its snapshot, peer view, conflict log, disk or
\* store and sends nothing; a stopped peer takes no further message.
C26_WrongKindIsFatal ==
    [][\A p \in Peers :
          /\ (WrongKindNext(p) /\ input'[p] = Tail(input[p])) =>
                /\ pc'[p] = IF pc[p] = "init" THEN "err_expected_init"
                            ELSE "err_expected_regular"
                /\ PeerUntouched(p)
                /\ input'[Other(p)] = input[Other(p)]
          /\ StoppedOnKind(p) =>
                /\ pc'[p] = pc[p]
                /\ PeerUntouched(p)
                /\ Len(input'[p]) >= Len(input[p])
      ]_vars
\* One peer stopped in the init loop on a Changes, the other stopped Running
\* on an Init message, with a snapshot that is not empty.
C26_Witness ==
    \E p \in Peers :
        /\ pc[p] = "err_expected_init"
        /\ hs_log[p][Len(hs_log[p])] = <<"recv", "Changes">>
        /\ pc[Other(p)] = "err_expected_regular"
        /\ this_state[Other(p)] # EmptyMap

\* Both peers are configured authoritative, or neither is.
SameFlags == node_init[1].override_other = node_init[2].override_other
\* No stray message has come.
NoStray == alg.left = MaxStray
\* Both run_node calls have sent their Announce and every message sent has
\* been received.
AllReceived == \A p \in Peers : pc[p] # "start" /\ input[p] = <<>>

\* C27: if both peers are authoritative, or neither is, no peer ever enters
\* Running. With both authoritative each peer fails on the Override it
\* receives while waiting for the acknowledgement of its own; with neither, no
\* Override is ever sent and both peers stay in the init loop waiting for one.
C27_IllFormedNeverRuns ==
    (SameFlags /\ NoStray) =>
        /\ \A p \in Peers : pc[p] # "running"
        /\ node_init[1].override_other =>
              /\ \A p \in Peers :
                    /\ pc[p] \in {"start", "init", "err_init"}
                    /\ pc[p] = "err_init" =>
                          hs_log[p][Len(hs_log[p])] = <<"recv", "Override">>
              /\ AllReceived => \A p \in Peers : pc[p] = "err_init"
        /\ ~node_init[1].override_other =>
              /\ \A p \in Peers :
                    /\ pc[p] \in {"start", "init"}
                    /\ \A i \in 1..Len(hs_log[p]) : hs_log[p][i][2] = "Announce"
              /\ AllReceived =>
                    \A p \in Peers : node_init[p].state = "AwaitingOverride"
\* Both peers are authoritative, their trees differ, and both have failed on
\* the other's Override.
C27_Witness ==
    /\ SameFlags /\ NoStray
    /\ node_init[1].override_other
    /\ disk[1] # disk[2]
    /\ \A p \in Peers : pc[p] = "err_init"
    /\ AllReceived

\* ------------------------------------------- sync_command, bounded channels

\* The two event loops of sync_command in their steady state, joined by two
\* channels of ChannelCap messages each (bounded(32) in the program). Of a
\* message only its kind is kept. chan[p] is the input channel of peer p,
\* loop[p] tells whether p is in the select or in output.send with the message
\* pending[p], refreshes[p] counts the refreshes p has done.
SyncInit ==
    /\ alg = [pc |-> "sync",
              chan |-> [p \in Peers |-> <<>>],
              loop |-> [p \in Peers |-> "select"],
              pending |-> [p \in Peers |-> "none"],
              refreshes |-> [p \in Peers |-> 0]]
    /\ IdleNode /\ IdleEnv /\ IdleScen /\ IdleMem

\* The select arm recv(watch_rx): refresh_requests returns a Changes when the
\* paths changed, which the loop goes on to send.
SyncRefresh(p, changed) ==
    /\ alg.pc = "sync" /\ alg.loop[p] = "select"
    /\ alg.refreshes[p] < MaxSyncRefreshes
    /\ alg' = IF changed
              THEN [alg EXCEPT !.refreshes[p] = @ + 1, !.loop[p] = "send",
                               !.pending[p] = "Changes"]
              ELSE [alg EXCEPT !.refreshes[p] = @ + 1]
    /\ UNCHANGED <<nodeVars, envVars, scenVars, memVars>>

\* The select arm recv(input): handle_message_disk answers a Changes with a
\* ChangesResponse, which the loop goes on to send, and a ChangesResponse
\* with nothing.
SyncRecv(p) ==
    /\ alg.pc = "sync" /\ alg.loop[p] = "select"
    /\ alg.chan[p] # <<>>
    /\ alg' = IF Head(alg.chan[p]) = "Changes"
              THEN [alg EXCEPT !.chan[p] = Tail(@), !.loop[p] = "send",
                               !.pending[p] = "ChangesResponse"]
              ELSE [alg EXCEPT !.chan[p] = Tail(@)]
    /\ UNCHANGED <<nodeVars, envVars, scenVars, memVars>>

\* output.send(AnyNodeMessage::Regular(response)) returns once the channel
\* has room for the message.
SyncSend(p) ==
    /\ alg.pc = "sync" /\ alg.loop[p] = "send"
    /\ Len(alg.chan[Other(p)]) < ChannelCap
    /\ alg' = [alg EXCEPT !.chan[Other(p)] = Append(@, alg.pending[p]),
                          !.loop[p] = "select", !.pending[p] = "none"]
    /\ UNCHANGED <<nodeVars, envVars, scenVars, memVars>>

SyncNext ==
    \E p \in Peers :
        \/ \E changed \in BOOLEAN : SyncRefresh(p, changed)
        \/ SyncRecv(p)
        \/ SyncSend(p)
SyncSpec == SyncInit /\ [][SyncNext]_vars

\* Peer p is in output.send and the channel it sends into is full.
BlockedInSend(p) ==
    alg.loop[p] = "send" /\ Len(alg.chan[Other(p)]) = ChannelCap

\* C30: in in-process sync mode no reachable state has both event loops
\* blocked in a send into a full channel, where neither can receive.
C30_NoSendDeadlock ==
    alg.pc = "sync" => ~(\A p \in Peers : BlockedInSend(p))
\* One loop is blocked in its send while the other is in its select and can
\* receive.
C30_Witness ==
    /\ alg.pc = "sync"
    /\ BlockedInSend(1)
    /\ alg.loop[2] = "select"

\* ------------------------------------- run_node, directories under the root

\* Two Running peers as in RunInit, whose users may also make a directory at
\* a path that holds nothing (after rm of the file that was there, say).
DirInit ==
    /\ base \in Maps(Paths, {FileMetadata(Hash(b)) : b \in DiskBytes})
    /\ pc = [p \in Peers |-> "running"]
    /\ node_init = [p \in Peers |-> <<>>]
    /\ this_state = [p \in Peers |-> base]
    /\ other_state = [p \in Peers |-> base]
    /\ conflicts = [p \in Peers |-> <<>>]
    /\ disk = [p \in Peers |-> DiskOf(base)]
    /\ content_store = [p \in Peers |-> StoreOf(base)]
    /\ watch_rx = [p \in Peers |-> {}]
    /\ input = [p \in Peers |-> <<>>]
    /\ edited = [p \in Peers |-> {}]
    /\ edits = MaxDirEdits
    /\ hs_log = [p \in Peers |-> <<>>]
    /\ IdleMem /\ IdleAlg

IsDirectory(files_on_disk, f) ==
    f \in DOMAIN files_on_disk /\ files_on_disk[f] = OtherFileType

\* The user writes a file at a path that holds no directory.
DirWrite(p, f, content) ==
    /\ ~IsDirectory(disk[p], f)
    /\ UserWrite(p, f, content)

\* The user makes a directory at a path that holds nothing; the watcher
\* reports the path.
UserMkdir(p, f) ==
    /\ edits > 0
    /\ f \notin DOMAIN disk[p]
    /\ disk' = [disk EXCEPT ![p] = MapInsert(@, f, OtherFileType)]
    /\ watch_rx' = [watch_rx EXCEPT ![p] = @ \cup {f}]
    /\ edited' = [edited EXCEPT ![p] = @ \cup {f}]
    /\ edits' = edits - 1
    /\ UNCHANGED <<nodeVars, pc, node_init, content_store, input, base, hs_log,
                   memVars, alg>>

DirNext ==
    \E p \in Peers :
        \/ \E f \in Paths, content \in DiskBytes : DirWrite(p, f, content)
        \/ \E f \in Paths : UserRemove(p, f)
        \/ \E f \in Paths : UserMkdir(p, f)
        \/ RunRecv(p)
        \/ \E batch \in SUBSET Paths : RunRefresh(p, batch)
DirSpec == DirInit /\ [][DirNext]_vars

\* Peer p is Running with no watcher event pending and no message to take.
QuietPeer(p) == pc[p] = "running" /\ input[p] = <<>> /\ watch_rx[p] = {}

\* The snapshot a scan of the disk gives: one entry per regular file.
SnapshotOfDisk(files_on_disk) == FsState_from_disk(files_on_disk, ContentStore_default).files

\* C31: whenever a Running peer has no watcher refresh pending and no inbound
\* message unprocessed, its snapshot maps exactly the regular files on its
\* disk to their content hashes, also after conflicting inbound entries and
\* after local edits that raced with inbound Changes.
C31_QuietSnapshotIsDisk ==
    \A p \in Peers : QuietPeer(p) => this_state[p] = SnapshotOfDisk(disk[p])
\* A quiet peer that logged a conflict for a path its user had edited.
C31_Witness ==
    \E p \in Peers, f \in Paths :
        /\ QuietPeer(p)
        /\ f \in SeqToSet(conflicts[p])
        /\ f \in edited[p]
        /\ f \in DOMAIN disk[p]

\* ------------------------------------------------- Node, the conflict log

IsPrefix(s, t) == Len(s) <= Len(t) /\ SubSeq(t, 1, Len(s)) = s

\* How often path f is in a conflict log.
TimesLogged(log, f) == Cardinality({i \in 1 .. Len(log) : log[i] = f})

\* C32: the conflict log of a peer only ever grows at its end: every step of
\* the connection leaves the entries it holds in place, so has_conflicts(),
\* once true, stays true, also when the path is no longer in conflict.
C32_ConflictLogAppendOnly ==
    [][\A p \in Peers :
          /\ IsPrefix(conflicts[p], conflicts'[p])
          /\ Node_has_conflicts(NodeOf(p)) => conflicts'[p] # <<>>]_vars
\* Both peers logged a path, a later user edit made both disks and both
\* snapshots agree on it, everything was delivered, and has_conflicts() is
\* still true on both.
C32_Witness ==
    \E f \in Paths :
        /\ ResolvedByUser(f)
        /\ this_state[1] = this_state[2]
        /\ \A p \in Peers : Node_has_conflicts(NodeOf(p))
\* A peer logged the same path twice (a state the connection reaches).
LoggedTwice == \E p \in Peers, f \in Paths : TimesLogged(conflicts[p], f) >= 2

\* ----------------------------------------------- ssh_sync_command_with_retry

\* const MAX_RETRIES: u32 and const RESET_THRESHOLD: Duration (in seconds).
MAX_RETRIES == 10
RESET_THRESHOLD == 60

\* How long a failed connection lasted, in seconds: just under the threshold
\* or just at it.
Durations == {RESET_THRESHOLD - 1, RESET_THRESHOLD}

\* An attempt counter that is reset only by a connection that lasted longer
\* than the threshold.
next_attempt_StrictThreshold(attempt, connection_duration) ==
    IF connection_duration > RESET_THRESHOLD THEN 1 ELSE attempt + 1

\* The attempt counter after a connection that failed after connection_duration.
next_attempt(attempt, connection_duration) ==
    IF connection_duration >= RESET_THRESHOLD THEN 1 ELSE attempt + 1

\* `let mut attempt = 1;` at the head of the loop. failures is the duration of
\* every connection that failed so far, in order; the error of the i-th
\* failed connection is named i.
RetryInit ==
    /\ alg = [pc |-> "retry_loop", attempt |-> 1, failures |-> <<>>,
              result |-> [kind |-> "none"]]
    /\ IdleNode /\ IdleEnv /\ IdleScen /\ IdleMem

\* One turn of the loop in which ssh_sync_command returns Ok(_).
ConnectionOk ==
    /\ alg.pc = "retry_loop"
    /\ alg' = [alg EXCEPT !.pc = "retry_returned", !.result = [kind |-> "Ok"]]
    /\ UNCHANGED <<nodeVars, envVars, scenVars, memVars>>

\* One turn of the loop in which ssh_sync_command returns Err(e) after
\* connection_duration: the counter is updated, then the function sleeps and
\* goes round again, or returns the error.
ConnectionFailed(connection_duration) ==
    /\ alg.pc = "retry_loop"
    /\ Len(alg.failures) < MaxConnections
    /\ LET attempt == next_attempt(alg.attempt, connection_duration)
           failures == Append(alg.failures, connection_duration)
       IN alg' = IF attempt <= MAX_RETRIES
                 THEN [alg EXCEPT !.attempt = attempt, !.failures = failures]
                 ELSE [alg EXCEPT !.attempt = attempt, !.failures = failures,
                                  !.pc = "retry_returned",
                                  !.result = [kind |-> "Err", of |-> Len(failures)]]
    /\ UNCHANGED <<nodeVars, envVars, scenVars, memVars>>

RetryNext ==
    \/ ConnectionOk
    \/ \E connection_duration \in Durations : ConnectionFailed(connection_duration)
RetrySpec == RetryInit /\ [][RetryNext]_vars

\* The number of failed connections at the end of the list that each lasted
\* less than the threshold.
RECURSIVE ShortRun(_)
ShortRun(failures) ==
    IF failures = <<>> THEN 0
    ELSE IF failures[Len(failures)] >= RESET_THRESHOLD THEN 0
    ELSE 1 + ShortRun(SubSeq(failures, 1, Len(failures) - 1))

\* C33: the retry loop has returned exactly when a connection ended with Ok
\* (it returns Ok) or the last MAX_RETRIES failed connections in a row each
\* lasted less than RESET_THRESHOLD (it returns the error of the last one);
\* the attempt counter is one more than the number of short failures since
\* the start or the last failure that lasted RESET_THRESHOLD or more, so such a
\* failure sets it to 1 and MAX_RETRIES further connections follow; it stays
\* within 1 .. MAX_RETRIES + 1.
C33_RetryTermination ==
    alg.pc \in {"retry_loop", "retry_returned"} =>
        /\ alg.attempt \in 1 .. (MAX_RETRIES + 1)
        /\ alg.attempt = 1 + ShortRun(alg.failures)
        /\ alg.pc = "retry_returned" <=>
               (alg.result.kind = "Ok" \/ ShortRun(alg.failures) = MAX_RETRIES)
        /\ alg.result.kind = "Err" <=>
               (alg.pc = "retry_returned" /\ ShortRun(alg.failures) = MAX_RETRIES)
        /\ alg.result.kind = "Err" => alg.result.of = Len(alg.failures)
        /\ alg.pc = "retry_loop" => alg.result.kind = "none"
\* The loop returned an error after a connection that lasted RESET_THRESHOLD
\* was followed by MAX_RETRIES short ones.
C33_Witness ==
    /\ alg.pc = "retry_returned"
    /\ alg.result.kind = "Err"
    /\ \E i \in 1 .. Len(alg.failures) :
          /\ alg.failures[i] >= RESET_THRESHOLD
          /\ Len(alg.failures) = i + MAX_RETRIES

====
